---- MODULE Spec2Model ----
(***************************************************************************)
(* Model of the document watcher and batch ingester of                     *)
(* code/embeddings/ingest.py: the fingerprint cache, the chunk store       *)
(* (ChromaDB collection), the transactional chunk replacement in           *)
(* DocumentIngester.process_file and the callers that upsert its result,   *)
(* and DocumentWatcher's timers (debounce, delayed deletion, delayed       *)
(* change notification, periodic scan) and event handlers, on_moved        *)
(* included.  Spec, SpecFaulty and SpecBatch run the watcher and           *)
(* ingest_directory; SpecIngester and SpecDetect make single calls of the  *)
(* ingester and of _detect_file_move from any state; SpecMoves adds rename *)
(* events and events on paths outside the project; SpecScan adds the       *)
(* periodic scan and writes for which no event is delivered; SpecStop runs *)
(* the watcher with its scan until _stop_manual_scanning and beyond;       *)
(* SpecRetry runs _retry_with_backoff alone, and SpecIndexable compares    *)
(* what the watcher and ingest_directory accept.  SpecEmpty writes files   *)
(* without extractable text, SpecHash splits the hash check of on_modified *)
(* so that the scan may run inside it, SpecChunk runs chunk_text turn by   *)
(* turn and retrieve_section over its chunks, and SpecConverge runs the    *)
(* watcher and its scan over a store that fails for a while.               *)
(*                                                                         *)
(* Time is discrete, one tick per second.  A timestamp stored by the code  *)
(* (pending_files[p], pending_deletions[p] = time.time()) is kept as its   *)
(* age, current_time - timestamp, which is all the code ever computes from *)
(* it; a threading.Timer is kept with the time left until it fires.  The   *)
(* clock does not advance past a timer that is due, so a timer fires in    *)
(* the tick it was set for.  Within one tick the order of the timestamps   *)
(* is kept by numbering them (seq), so that "stamped after this timer was  *)
(* started" is decided as the real clock decides it.  Timer callbacks run  *)
(* on their own threads: _debounced_process_file is split at its store     *)
(* calls (backup, process_file, every upsert attempt, rollback); other     *)
(* handlers may run and any time may pass between those steps.             *)
(***************************************************************************)
EXTENDS Integers, Sequences, FiniteSets, TLC

\* ---------------------------------------------------------------- bounds
\* Number of filesystem operations (each delivers one watcher event), in a
\* run whose store never fails and in a run whose store may fail.
MaxEvents == 4
MaxFaultyEvents == 2
\* Number of times the store may start to fail.
MaxOutages == 1
\* Number of consecutive runs of ingest_directory.
MaxRuns == 2
\* Calls made to the ingester in one behaviour of SpecIngester.
MaxCalls == 3
\* Filesystem events in one behaviour of SpecMoves.
MaxMoveEvents == 2
\* Writes, with or without an event, in one behaviour of SpecScan.
MaxScanEvents == 2

\* ------------------------------------------------------ program constants
\* DocumentWatcher.__init__ (seconds).
debounce_seconds == 5
atomic_operation_delay == 2
move_detection_window == 10
max_retries == 3
retry_delay == 1
\* threading.Timer(0.5, ...) in on_created, rounded to one tick; the 0.1 s
\* timer of the "immediate" branch is due within the tick that starts it.
atomic_recreate_delay == 1
immediate_delay == 0
\* chunk_text(text, chunk_size=1000, overlap=100), scaled to the model's
\* texts of a few characters (overlap < chunk_size \div 2 as in the code).
chunk_size == 4
overlap == 1
\* batch_size = 50 in ingest_directory, scaled to the model's chunk counts.
batch_size == 2
\* Files of 1024 * 1024 bytes and more get no content hash, scaled to the
\* model's texts.
hash_size_limit == 7

\* ------------------------------------------------------------ the project
\* Two eligible files of the project directory (supported extension, not
\* under an excluded path, no temp-file naming).
Paths == {"a.md", "b.md"}
\* A third eligible file, two directories down, that the calls made to the
\* ingester and to _detect_file_move also work on.
DeepPath == "d/e/a.md"
AllPaths == Paths \cup {DeepPath}
\* Path.name, Path.suffix and the directories of the project-relative path.
Name(p) == IF p = DeepPath THEN "a.md" ELSE p
\* Paths of events that are not eligible: an extension that is not
\* supported, an excluded directory, and two paths that are not under the
\* project directory.
TextPath == "n.doc"
ExcludedPath == "code/c.md"
OutsidePath == "/out/o.md"
OutsideTextPath == "/out/o.doc"
OutsidePaths == {OutsidePath, OutsideTextPath}
Suffix(p) == IF p \in {TextPath, OutsideTextPath} THEN ".doc" ELSE ".md"
supported_extensions ==
    { ".md", ".pdf", ".txt", ".rtf", ".docx", ".html", ".htm", ".json",
      ".xml", ".yaml", ".yml", ".rst", ".tex", ".log", ".csv", ".tsv" }
Dirs(p) == IF p = DeepPath THEN << "d", "e" >>
           ELSE IF p = ExcludedPath THEN << "code" >>
           ELSE << >>

\* str.lower() of the suffixes that are not in lower case already.
Lower(suffix) ==
    CASE suffix = ".MD" -> ".md"
      [] suffix = ".Txt" -> ".txt"
      [] suffix = ".DOC" -> ".doc"
      [] OTHER -> suffix

\* DocumentWatcher.excluded_paths and the excluded_paths of ingest_directory
\* are '.git/' and 'code/'.  One of them is a substring of a path when one
\* of the directories of the path ends in .git or in code.
EndsExcluded(dir) == dir \in {"code", "barcode", ".git"}
ExcludedIn(dirs) == \E k \in 1..Len(dirs) : EndsExcluded(dirs[k])

\* File contents.  Absent stands for "no such file".  A content is a version
\* of a file: its text and its modification time.  The watcher's events
\* write the versions 1 and 2.  Version 3 has the size and the mtime of
\* version 2 and another text, version 4 is version 1 touched (same text,
\* later mtime), versions 5 and 6 are two texts of the same size and mtime
\* that are not below the size limit of the content hash.  EmptyContent is
\* a file of white space only (content.strip() is empty), Unextractable is
\* a file that has bytes but whose extraction raises.
Absent == 0
Contents == {1, 2}
Versions == 1..6
EmptyContent == 7
Unextractable == 8
NoTextContents == {EmptyContent, Unextractable}
Text(c) ==
    CASE c = 1 -> <<"a", "b", "c", "d", "e", "f">>
      [] c = 2 -> <<"x", ".", "y">>
      [] c = 3 -> <<"x", ".", "z">>
      [] c = 4 -> <<"a", "b", "c", "d", "e", "f">>
      [] c = 5 -> <<"p", "q", "r", "s", "t", "u", "v", "w">>
      [] c = 6 -> <<"p", "q", "r", "s", "t", "u", "v", "z">>
      [] c = Unextractable -> <<"g">>
      [] OTHER -> <<>>
\* The extraction of process_file raises on this content.
ExtractionFails(c) == c = Unextractable
\* os.stat and md5 of the content: st_size is the length, equal texts have
\* equal hashes and different texts have different ones.  NoHash is the
\* empty string _get_file_hash returns when it cannot read the file, and
\* the value read for a cache entry that has no hash.
Size(c) == Len(Text(c))
Hash(c) == IF c = 4 THEN 1 ELSE c
MTime(c) == IF c = 3 THEN 2 ELSE IF c = 6 THEN 5 ELSE c
NoHash == 0
get_file_hash(c, readable) == IF readable THEN Hash(c) ELSE NoHash

\* ------------------------------------------------------------ dictionaries
\* Python dicts are functions whose domain is the set of keys.
EmptyDict == [k \in {} |-> 0]
DictSet(d, k, v) == [x \in (DOMAIN d) \cup {k} |-> IF x = k THEN v ELSE d[x]]
DictDel(d, k) == [x \in (DOMAIN d) \ {k} |-> d[x]]

\* --------------------------------------------------------------- chunking
Slice(s, from, to) == [i \in 1..(to - from) |-> s[from + i]]

IsBoundary(ch) == ch \in {".", "!", "?", "\n"}

\* The inner while loop of chunk_text: move end back to a sentence boundary,
\* at most down to start + chunk_size // 2.  Positions are 0-based as in the
\* code, so text[end] is the model's s[end + 1].
RECURSIVE BreakAt(_, _, _, _)
BreakAt(s, start, end, cs) ==
    IF end > start + (cs \div 2) /\ ~IsBoundary(s[end + 1])
    THEN BreakAt(s, start, end - 1, cs)
    ELSE end

RECURSIVE ChunkFrom(_, _, _, _)
ChunkFrom(s, start, cs, ov) ==
    IF start >= Len(s) THEN <<>>
    ELSE IF start + cs >= Len(s) THEN << Slice(s, start, Len(s)) >>
    ELSE LET end == BreakAt(s, start, start + cs, cs)
         IN  << Slice(s, start, end) >> \o ChunkFrom(s, end - ov, cs, ov)

chunk_text(s, cs, ov) == IF Len(s) <= cs THEN << s >> ELSE ChunkFrom(s, 0, cs, ov)

\* ------------------------------------------------------------------ store
\* The collection is a set of chunks with pairwise different ids.  The id
\* md5(f"{file_path}_{i}") is the pair <<path, i>>.
DocId(p, i) == <<p, i>>

\* _extract_path_metadata(p): path_depth, parent_dir and one path_level_i
\* key for every directory (kept as the sequence of their values).
PathMetadata(p) ==
    [path_depth |-> Len(Dirs(p)),
     parent_dir |-> IF Dirs(p) = << >> THEN "" ELSE Dirs(p)[Len(Dirs(p))],
     path_levels |-> Dirs(p)]

\* dict.update of the path_level_i keys: the keys of new replace those of
\* old, the other keys of old stay.
UpdateLevels(old, new) ==
    [i \in 1..(IF Len(old) > Len(new) THEN Len(old) ELSE Len(new)) |->
        IF i <= Len(new) THEN new[i] ELSE old[i]]

\* The documents process_file builds from a file's content.
Documents(p, c) ==
    LET chunks == chunk_text(Text(c), chunk_size, overlap)
    IN  { [id |-> DocId(p, i - 1), content |-> chunks[i], source |-> p,
           filename |-> Name(p), chunk_index |-> i - 1,
           path_depth |-> PathMetadata(p).path_depth,
           parent_dir |-> PathMetadata(p).parent_dir,
           path_levels |-> PathMetadata(p).path_levels]
          : i \in 1..Len(chunks) }

Ids(docs) == { d.id : d \in docs }

\* collection.get(where={"source": p}), collection.upsert, collection.delete.
GetBySource(st, p) == { d \in st : d.source = p }
Upsert(st, docs) == { d \in st : d.id \notin Ids(docs) } \cup docs
Delete(st, ids) == { d \in st : d.id \notin ids }


\* ------------------------------------------------------------------ state
VARIABLES
    files,              \* path -> content on disk, or Absent
    store,              \* the collection: a set of chunks
    store_up,           \* FALSE while calls of the collection raise
    outages,            \* number of store outages so far
    cache,              \* ingester.cache["files"]: path -> fingerprint entry
    cache_file,         \* the files mapping last written by _save_cache
    pending_files,      \* watcher.pending_files: path -> last event (age, seq)
    pending_deletions,  \* watcher.pending_deletions: path -> age of delete
    file_hashes,        \* watcher.file_hashes: path -> last known hash
    timers,             \* started threading.Timer objects
    running,            \* _debounced_process_file calls in flight
    events,             \* number of filesystem operations so far
    gen,                \* path -> number of _process_file_change calls
    burst,              \* path -> number of the current burst of calls
    notified,           \* every _process_file_change call: path, gen, burst
    execs,              \* _debounced_process_file calls that passed the check
    confirmed,          \* what every confirmed deletion saw when it was decided
    recreated,          \* path -> the create that cancelled its last delete event
    rescheduled,        \* paths deleted again after such a cancellation
    last_delete,        \* path -> the last delete event: age, chunk ids, hash
    expect_move,        \* creates that matched a delete inside the move window
    rollbacks,          \* reprocessings that ended in the rollback branch
    ingest,             \* the run of ingest_directory: its position and locals
    manual_scan_timer,  \* the watcher's reference to its periodic scan timer
    stored,             \* paths whose chunks were written and not removed since
    call                \* the last call made to the ingester or watcher API

vars == << files, store, stored, store_up, outages, cache, cache_file, pending_files,
           pending_deletions, file_hashes, timers, running, events, gen,
           burst, notified, execs, confirmed, recreated, rescheduled,
           last_delete, expect_move, rollbacks, manual_scan_timer, ingest, call >>

\* Age of a timestamp that is older than anything the code compares it with.
Cap(limit, age) == IF age < limit THEN age + 1 ELSE age

\* ---------------------------------------------------------- the ingester
\* The entry _update_file_cache writes for a file with content c, whose
\* hash is computed when readable; a file that is not below the size limit
\* gets no hash.
UpdateFileCache(c, readable) ==
    [mtime |-> MTime(c), size |-> Size(c),
     hash |-> IF Size(c) < hash_size_limit THEN get_file_hash(c, readable)
              ELSE NoHash]

\* The entry of a file that could be read.
CacheEntry(c) == UpdateFileCache(c, TRUE)

\* _backup_existing_chunks: the chunks stored under the path's source key;
\* an error of the query is swallowed and gives an empty backup.
BackupExistingChunks(st, up, p) == IF up THEN GetBySource(st, p) ELSE {}

\* should_process_file, where readable tells whether _get_file_hash can read
\* the file: the hashes are compared for a file below the size limit, and
\* only when neither of them is empty.
ShouldProcessStatOnly(ch, fs, p, readable) ==
    /\ fs[p] # Absent
    /\ p \in DOMAIN ch => (ch[p].mtime # MTime(fs[p]) \/ ch[p].size # Size(fs[p]))

ShouldProcess(ch, fs, p, readable) ==
    IF fs[p] = Absent THEN FALSE
    ELSE IF p \notin DOMAIN ch THEN TRUE
    ELSE IF ch[p].mtime # MTime(fs[p]) \/ ch[p].size # Size(fs[p]) THEN TRUE
    ELSE IF Size(fs[p]) < hash_size_limit
    THEN /\ get_file_hash(fs[p], readable) # NoHash
         /\ ch[p].hash # NoHash
         /\ get_file_hash(fs[p], readable) # ch[p].hash
    ELSE FALSE

\* should_process_file for a file that can be read.
should_process_file(ch, fs, p) == ShouldProcess(ch, fs, p, TRUE)

\* process_file(path, force): the result is the documents it returns, the
\* store after it removed the backed-up chunks, and the cache after
\* _update_file_cache.  A file that is skipped, missing or empty returns no
\* documents and changes nothing, and so does a file whose extraction
\* raises: the handler of process_file catches the exception and returns [].
ProcessFileSkipsUncached(ch, fs, p, force) ==
    \/ fs[p] = Absent
    \/ ExtractionFails(fs[p])
    \/ Text(fs[p]) = <<>>

ProcessFileSkips(ch, fs, p, force) ==
    \/ (~force /\ ~should_process_file(ch, fs, p))
    \/ fs[p] = Absent
    \/ ExtractionFails(fs[p])
    \/ Text(fs[p]) = <<>>

ProcessFileDocs(ch, fs, p, force) ==
    IF ProcessFileSkips(ch, fs, p, force) THEN {} ELSE Documents(p, fs[p])

\* The store after a process_file that would remove the chunks of the path
\* before it looked at the extracted content.
ProcessFileStoreEager(st, up, ch, fs, p, force) ==
    IF (~force /\ ~should_process_file(ch, fs, p)) \/ fs[p] = Absent THEN st
    ELSE Delete(st, Ids(BackupExistingChunks(st, up, p)))

ProcessFileStore(st, up, ch, fs, p, force) ==
    IF ProcessFileSkips(ch, fs, p, force) THEN st
    ELSE Delete(st, Ids(BackupExistingChunks(st, up, p)))

ProcessFileCache(ch, fs, p, force) ==
    IF ProcessFileSkips(ch, fs, p, force) THEN ch
    ELSE DictSet(ch, p, CacheEntry(fs[p]))

\* move_file_in_database(old, new): TRUE when chunks were moved.
MoveSucceedsAlways(st, up, old) == up

MoveSucceeds(st, up, old) == up /\ GetBySource(st, old) # {}

MoveStore(st, old, new) ==
    Upsert(st, { [d EXCEPT !.source = new, !.filename = Name(new),
                           !.path_depth = PathMetadata(new).path_depth,
                           !.parent_dir = PathMetadata(new).parent_dir,
                           !.path_levels =
                               UpdateLevels(@, PathMetadata(new).path_levels)]
                 : d \in GetBySource(st, old) })

\* The cache after a move that would drop the entry of old instead of
\* copying it to new.
MoveCacheDropped(ch, old, new) == DictDel(ch, old)

\* The cache after move_file_in_database(old, new) moved chunks: the entry of
\* old, when there is one, is copied to new and removed.
MoveCache(ch, old, new) ==
    IF old \in DOMAIN ch THEN DictDel(DictSet(ch, new, ch[old]), old) ELSE ch


\* ----------------------------------------------------------- the watcher
\* A started threading.Timer.  gen numbers the timers of one kind and path
\* in the order they were started: a debounce timer has the number of the
\* notification that started it, another timer the number of the event.
Timer(kind, p, delay, g, b) ==
    [kind |-> kind, path |-> p, left |-> delay, gen |-> g, burst |-> b]

\* The timer t is due, and no timer of its kind and path that was started
\* before it (with the same delay) is still waiting to fire.
Due(t) ==
    /\ t.left = 0
    /\ \A u \in timers :
          (u.kind = t.kind /\ u.path = t.path /\ u.left = 0) => u.gen >= t.gen

\* A call of _process_file_change(p) continues the current burst of p when it
\* comes less than debounce_seconds after the previous call, which is while
\* the debounce timer of the previous call has not fired.
SameBurst(p) ==
    \E t \in timers : t.kind = "debounce" /\ t.path = p /\ t.gen = gen[p]

\* _process_file_change(p), called where the pending deletions are pd, the
\* pending files pf and the started timers tm: cancels a pending deletion of
\* p, stamps pending_files[p] and starts a debounce timer.
StartDebounce(p, pd, pf, tm) ==
    LET b == IF SameBurst(p) THEN burst[p] ELSE burst[p] + 1
    IN  /\ pending_deletions' = DictDel(pd, p)
        /\ pending_files' = DictSet(pf, p, [age |-> 0, seq |-> gen[p] + 1])
        /\ timers' = tm \cup {Timer("debounce", p, debounce_seconds, gen[p] + 1, b)}
        /\ gen' = [gen EXCEPT ![p] = @ + 1]
        /\ burst' = [burst EXCEPT ![p] = b]
        /\ notified' = notified \cup {[path |-> p, gen |-> gen[p] + 1, burst |-> b]}
        /\ UNCHANGED ingest

ProcessFileChange(p, pd, pf, tm) ==
    /\ StartDebounce(p, pd, pf, tm)
    /\ UNCHANGED call

\* A step that is no call of _process_file_change and no step of
\* ingest_directory.
Quiet == UNCHANGED << gen, burst, notified, ingest >>

NoChange == Quiet /\ UNCHANGED call

\* _check_file_changed_by_hash(p): TRUE when the file exists and its hash is
\* not the last known one (which is then replaced).
FileChangedByHashTracked(fh, fs, p) ==
    /\ fs[p] # Absent
    /\ p \in DOMAIN fh
    /\ fh[p] # Hash(fs[p])

FileChangedByHash(fh, fs, p) ==
    /\ fs[p] # Absent
    /\ (p \notin DOMAIN fh \/ fh[p] # Hash(fs[p]))

\* _schedule_delayed_deletion(p) as it would be if it stamped the pending
\* deletion and started no timer.
ScheduleDelayedDeletionUntimed(p, tm) ==
    /\ pending_deletions' = DictSet(pending_deletions, p, 0)
    /\ timers' = tm

\* _schedule_delayed_deletion(p).
ScheduleDelayedDeletion(p, tm) ==
    /\ pending_deletions' = DictSet(pending_deletions, p, 0)
    /\ timers' = tm \cup {Timer("deletion", p, atomic_operation_delay, events + 1, 0)}

\* _detect_file_move(created): the score of the pending deletion q against
\* the created file, which has content c.
MatchScore(q, created, c) ==
      (IF q \in DOMAIN file_hashes /\ file_hashes[q] = Hash(c) THEN 100 ELSE 0)
    + (IF Name(q) = Name(created) THEN 50 ELSE 0)
    + (IF Suffix(q) = Suffix(created) THEN 20 ELSE 0)
    + (IF q \in DOMAIN cache /\ cache[q].size = Size(c) THEN 30 ELSE 0)

MoveCandidatesAnyAge(created, c) ==
    { q \in DOMAIN pending_deletions : MatchScore(q, created, c) >= 50 }

MoveCandidates(created, c) ==
    { q \in DOMAIN pending_deletions :
        /\ pending_deletions[q] <= move_detection_window
        /\ MatchScore(q, created, c) >= 50 }

\* Highest score first, then the most recent deletion (the smallest age).
BestCandidates(created, c) ==
    { q \in MoveCandidates(created, c) :
        \A r \in MoveCandidates(created, c) :
            \/ MatchScore(q, created, c) > MatchScore(r, created, c)
            \/ /\ MatchScore(q, created, c) = MatchScore(r, created, c)
               /\ pending_deletions[q] <= pending_deletions[r] }

\* _process_file_move(old, new) for a destination that exists with content c.
MoveFile(old, new, c) ==
    LET pd == DictDel(pending_deletions, old)
        pf == DictDel(DictDel(pending_files, old), new)
    IN  IF MoveSucceeds(store, store_up, old)
        THEN /\ store' = MoveStore(store, old, new)
             /\ stored' = (stored \ {old}) \cup {new}
             /\ cache' = MoveCache(cache, old, new)
             /\ cache_file' = IF old \in DOMAIN cache THEN cache' ELSE cache_file
             /\ file_hashes' = DictSet(DictDel(file_hashes, old), new, Hash(c))
             /\ pending_deletions' = pd
             /\ pending_files' = pf
             /\ UNCHANGED timers
             /\ Quiet
        ELSE /\ file_hashes' = DictDel(file_hashes, old)
             /\ StartDebounce(new, pd, pf, timers)
             /\ UNCHANGED << store, stored, cache, cache_file >>

\* on_created calls it for the source _detect_file_move returned; call keeps
\* what the last such call was given and whether the database move succeeded.
ProcessFileMove(old, new, c) ==
    /\ MoveFile(old, new, c)
    /\ call' = [op |-> "_process_file_move", old |-> old, new |-> new,
                moved |-> MoveSucceeds(store, store_up, old),
                had_chunks |-> GetBySource(store, old) # {}]

\* Expectations of earlier creates end with the next event on their paths.
Untouched(p) == { m \in expect_move : m.old # p /\ m.new # p }

\* A delete event of q inside the move window whose tracked hash is the
\* hash of the content created at p.
MatchingDeletes(p, c) ==
    { q \in DOMAIN last_delete :
        /\ q # p
        /\ last_delete[q].age <= move_detection_window
        /\ last_delete[q].hash = Hash(c)
        /\ last_delete[q].ids # {} }

\* A file is written in place and on_modified is delivered.
Modify(p, c, limit) ==
    /\ events < limit
    /\ files[p] # Absent
    /\ c # files[p]
    /\ events' = events + 1
    /\ files' = [files EXCEPT ![p] = c]
    /\ expect_move' = Untouched(p)
    /\ recreated' = [q \in DOMAIN recreated |->
                        IF q = p THEN [recreated[q] EXCEPT !.modified = TRUE]
                        ELSE recreated[q]]
    /\ IF p \in DOMAIN pending_deletions
       THEN /\ UNCHANGED << file_hashes, pending_deletions, pending_files, timers >>
            /\ NoChange
       ELSE IF FileChangedByHash(file_hashes, files', p)
       THEN /\ file_hashes' = DictSet(file_hashes, p, Hash(c))
            /\ ProcessFileChange(p, pending_deletions, pending_files, timers)
       ELSE /\ UNCHANGED << file_hashes, pending_deletions, pending_files, timers >>
            /\ NoChange
    /\ UNCHANGED << store, stored, store_up, outages, cache, cache_file, running, execs,
                    confirmed, rescheduled, last_delete, rollbacks, manual_scan_timer >>

\* A file appears and on_created is delivered.
Create(p, c, limit) ==
    /\ events < limit
    /\ files[p] = Absent
    /\ events' = events + 1
    /\ files' = [files EXCEPT ![p] = c]
    /\ expect_move' = Untouched(p) \cup
            { [old |-> q, new |-> p, ids |-> last_delete[q].ids]
              : q \in MatchingDeletes(p, c) }
    /\ IF p \in DOMAIN pending_deletions
       THEN /\ pending_deletions' = DictDel(pending_deletions, p)
            /\ timers' = timers \cup
                    {Timer("change", p, atomic_recreate_delay, events + 1, 0)}
            /\ recreated' = DictSet(recreated, p,
                                     [content |-> c, modified |-> FALSE,
                                      age |-> 0, reprocessed |-> FALSE])
            /\ NoChange
            /\ UNCHANGED << store, stored, cache, cache_file, file_hashes, pending_files >>
       ELSE IF BestCandidates(p, c) # {}
       THEN /\ \E src \in BestCandidates(p, c) : ProcessFileMove(src, p, c)
            /\ UNCHANGED recreated
       ELSE /\ timers' = timers \cup
                    {Timer("change", p, immediate_delay, events + 1, 0)}
            /\ NoChange
            /\ UNCHANGED << store, stored, cache, cache_file, file_hashes, pending_files,
                            pending_deletions, recreated >>
    /\ UNCHANGED << store_up, outages, running, execs, confirmed, rescheduled,
                    last_delete, rollbacks, manual_scan_timer >>

\* A file is removed and on_deleted is delivered.
Remove(p, limit) ==
    /\ events < limit
    /\ files[p] # Absent
    /\ events' = events + 1
    /\ files' = [files EXCEPT ![p] = Absent]
    /\ ScheduleDelayedDeletion(p, timers)
    /\ recreated' = DictDel(recreated, p)
    /\ rescheduled' = IF p \in DOMAIN recreated THEN rescheduled \cup {p}
                      ELSE rescheduled
    /\ expect_move' = Untouched(p)
    /\ last_delete' = DictSet(last_delete, p,
            [age |-> 0, ids |-> Ids(GetBySource(store, p)),
             hash |-> IF p \in DOMAIN file_hashes THEN file_hashes[p] ELSE -1])
    /\ NoChange
    /\ UNCHANGED << store, stored, store_up, outages, cache, cache_file, pending_files,
                    file_hashes, running, execs, confirmed, rollbacks, manual_scan_timer >>


\* _process_delayed_deletion(p) as it would decide without comparing the age
\* of the pending deletion with atomic_operation_delay.
DeletionVerdictNoDelay(pd, fs, p) ==
    IF p \notin DOMAIN pd THEN "cancelled"
    ELSE IF fs[p] # Absent THEN "recreated"
    ELSE "confirmed"

\* _process_delayed_deletion(p): which branch it takes.
DeletionVerdict(pd, fs, p) ==
    IF p \notin DOMAIN pd THEN "cancelled"
    ELSE IF pd[p] < atomic_operation_delay THEN "early"
    ELSE IF fs[p] # Absent THEN "recreated"
    ELSE "confirmed"

\* The timer of _schedule_delayed_deletion fires.
FireDeletion(t) ==
    LET p == t.path
        verdict == DeletionVerdict(pending_deletions, files, p)
    IN  /\ t.kind = "deletion"
        /\ Due(t)
        /\ CASE verdict \in {"cancelled", "early"} ->
                  /\ timers' = timers \ {t}
                  /\ NoChange
                  /\ UNCHANGED << store, stored, cache, cache_file, file_hashes,
                                  pending_deletions, pending_files, confirmed >>
             [] verdict = "recreated" ->
                  /\ ProcessFileChange(p, pending_deletions, pending_files,
                                       timers \ {t})
                  /\ UNCHANGED << store, stored, cache, cache_file, file_hashes, confirmed >>
             [] verdict = "confirmed" ->
                  /\ store' = Delete(store,
                                Ids(BackupExistingChunks(store, store_up, p)))
                  /\ stored' = stored \ {p}
                  /\ cache' = DictDel(cache, p)
                  /\ cache_file' = IF p \in DOMAIN cache THEN cache' ELSE cache_file
                  /\ file_hashes' = DictDel(file_hashes, p)
                  /\ pending_deletions' = DictDel(pending_deletions, p)
                  /\ timers' = timers \ {t}
                  /\ confirmed' = confirmed \cup
                        { [path |-> p,
                           pending |-> p \in DOMAIN pending_deletions,
                           since_delete |-> IF p \in DOMAIN last_delete
                                            THEN last_delete[p].age ELSE -1,
                           absent |-> files[p] = Absent,
                           recreated |-> p \in DOMAIN recreated,
                           rescheduled |-> p \in rescheduled] }
                  /\ NoChange
                  /\ UNCHANGED pending_files
        /\ UNCHANGED << files, store_up, outages, running, events, execs,
                        recreated, rescheduled, last_delete, expect_move, rollbacks, manual_scan_timer >>

\* A timer started with _process_file_change as its callback fires.
FireChange(t) ==
    /\ t.kind = "change"
    /\ Due(t)
    /\ ProcessFileChange(t.path, pending_deletions, pending_files, timers \ {t})
    /\ UNCHANGED << files, store, stored, store_up, outages, cache, cache_file,
                    file_hashes, running, events, execs, confirmed, recreated,
                    rescheduled,
                    last_delete, expect_move, rollbacks, manual_scan_timer >>

\* The staleness check of _debounced_process_file, made by the timer that
\* the notification number g started debounce_seconds ago: the entry is
\* younger than debounce_seconds when it was stamped in a later tick, or in
\* the same tick by a later notification.
StillDebouncing(pf, p, g) ==
    /\ p \in DOMAIN pf
    /\ (pf[p].age < debounce_seconds \/ pf[p].seq > g)

\* A debounce timer fires: the check, the existence test and the backup.
FireDebounce(t) ==
    LET p == t.path
    IN  /\ t.kind = "debounce"
        /\ Due(t)
        /\ timers' = timers \ {t}
        /\ IF StillDebouncing(pending_files, p, t.gen)
           THEN UNCHANGED << pending_files, running, execs, recreated >>
           ELSE /\ recreated' =
                     [q \in DOMAIN recreated |->
                         IF q = p /\ files[p] # Absent
                         THEN [recreated[q] EXCEPT !.reprocessed = TRUE]
                         ELSE recreated[q]]
                /\ execs' = execs \cup
                     { [path |-> p, gen |-> t.gen, burst |-> t.burst,
                        superseded |-> t.gen < gen[p],
                        processed |-> files[p] # Absent] }
                /\ IF files[p] = Absent
                   THEN /\ pending_files' = DictDel(pending_files, p)
                        /\ UNCHANGED running
                   ELSE /\ running' = running \cup
                             { [path |-> p, gen |-> t.gen, pc |-> "process",
                                backup |-> BackupExistingChunks(store, store_up, p),
                                before |-> GetBySource(store, p),
                                docs |-> {}, attempt |-> 0, sleep |-> 0] }
                        /\ UNCHANGED pending_files
        /\ NoChange
        /\ UNCHANGED << files, store, stored, store_up, outages, cache, cache_file,
                        pending_deletions, file_hashes, events, confirmed,
                        rescheduled, last_delete, expect_move, rollbacks, manual_scan_timer >>


\* The thread r of _debounced_process_file ends: the finally clause.
Finish(r) ==
    /\ running' = running \ {r}
    /\ pending_files' = DictDel(pending_files, r.path)

\* process_file(path, force=True) inside _debounced_process_file.
ProcessStep(r) ==
    LET p == r.path
        docs == ProcessFileDocs(cache, files, p, TRUE)
    IN  /\ r.pc = "process"
        /\ store' = ProcessFileStore(store, store_up, cache, files, p, TRUE)
        /\ UNCHANGED stored
        /\ cache' = ProcessFileCache(cache, files, p, TRUE)
        /\ IF docs = {}
           THEN Finish(r)
           ELSE /\ running' = (running \ {r}) \cup
                        { [r EXCEPT !.pc = "upsert", !.docs = docs] }
                /\ UNCHANGED pending_files
        /\ NoChange
        /\ UNCHANGED << files, store_up, outages, cache_file, pending_deletions,
                        file_hashes, timers, events, execs, confirmed, recreated,
                    rescheduled,
                        last_delete, expect_move, rollbacks, manual_scan_timer >>

RECURSIVE Pow2(_)
Pow2(n) == IF n = 0 THEN 1 ELSE 2 * Pow2(n - 1)

\* The sleep after the failed attempt number k if the delay grew by
\* retry_delay with every attempt instead of doubling.
BackoffDelayLinear(k) == retry_delay * (k + 1)

\* _retry_with_backoff: the sleep after the failed attempt number k (from 0).
BackoffDelay(k) == retry_delay * Pow2(k)

\* One attempt of _retry_with_backoff(upsert_operation).  After a success the
\* cache is saved; after the last failure the handler goes on to roll back.
UpsertStep(r) ==
    /\ r.pc = "upsert"
    /\ r.sleep = 0
    /\ IF store_up
       THEN /\ store' = Upsert(store, r.docs)
            /\ stored' = stored \cup {r.path}
            /\ cache_file' = cache
            /\ Finish(r)
       ELSE /\ running' = (running \ {r}) \cup
                 { IF r.attempt < max_retries
                   THEN [r EXCEPT !.attempt = @ + 1,
                                  !.sleep = BackoffDelay(r.attempt)]
                   ELSE [r EXCEPT !.pc = "rollback"] }
            /\ UNCHANGED << store, stored, cache_file, pending_files >>
    /\ NoChange
    /\ UNCHANGED << files, store_up, outages, cache, pending_deletions,
                    file_hashes, timers, events, execs, confirmed, recreated,
                    rescheduled,
                    last_delete, expect_move, rollbacks, manual_scan_timer >>

\* _restore_chunks_from_backup(backup): an error of the upsert is reported
\* and swallowed.
RestoreChunksFromBackup(st, up, backup) ==
    IF backup # {} /\ up THEN Upsert(st, backup) ELSE st

\* max_retries of the calls of _retry_with_backoff for the cache save and
\* for the restore of the backup.
restore_max_retries == 2

\* The invocations _retry_with_backoff(op, max_retries=m) makes of an
\* operation that raises in its first `raised` invocations and not after.
RetryInvocations(raised, m) == IF raised > m THEN m + 1 ELSE raised + 1

\* The rollback branch of _debounced_process_file:
\* _retry_with_backoff(_restore_chunks_from_backup, backup, max_retries=2).
\* _restore_chunks_from_backup catches the error of its upsert, so that none
\* of its invocations raises.
RollbackStep(r) ==
    /\ r.pc = "rollback"
    /\ store' = RestoreChunksFromBackup(store, store_up, r.backup)
    /\ UNCHANGED stored
    /\ Finish(r)
    /\ rollbacks' = rollbacks \cup
            { [path |-> r.path, before |-> r.before,
               after |-> GetBySource(store', r.path),
               restore_failed |-> r.backup # {} /\ ~store_up,
               restore_invocations |->
                   IF r.backup = {} THEN 0
                   ELSE RetryInvocations(0, restore_max_retries)] }
    /\ NoChange
    /\ UNCHANGED << files, store_up, outages, cache, cache_file,
                    pending_deletions, file_hashes, timers, events, execs,
                    confirmed, recreated, rescheduled, last_delete, expect_move,
                    manual_scan_timer >>

\* The store starts to fail, and recovers.
StoreFails ==
    /\ store_up
    /\ timers # {} \/ running # {} \/ ingest.pc \notin {"idle", "done"}
    /\ outages < MaxOutages
    /\ store_up' = FALSE
    /\ outages' = outages + 1
    /\ NoChange
    /\ UNCHANGED << files, store, stored, cache, cache_file, pending_files,
                    pending_deletions, file_hashes, timers, running, events,
                    execs, confirmed, recreated, rescheduled, last_delete, expect_move,
                    rollbacks, manual_scan_timer >>

StoreRecovers ==
    /\ ~store_up
    /\ store_up' = TRUE
    /\ NoChange
    /\ UNCHANGED << files, store, stored, outages, cache, cache_file, pending_files,
                    pending_deletions, file_hashes, timers, running, events,
                    execs, confirmed, recreated, rescheduled, last_delete, expect_move,
                    rollbacks, manual_scan_timer >>

\* Some timer is started or some callback is in flight.
Busy == timers # {} \/ running # {}

\* One second passes.  Due timers fire first.  While nothing is scheduled
\* the code does not read the clock, and a long time passes at once: every
\* age grows past the limits the code compares it with.
Elapse(limit, age) == IF Busy THEN Cap(limit, age) ELSE limit

Tick ==
    /\ \A t \in timers : t.left > 0
    /\ timers' = { [t EXCEPT !.left = @ - 1] : t \in timers }
    /\ running' = { [r EXCEPT !.sleep = IF @ > 0 THEN @ - 1 ELSE 0]
                     : r \in running }
    /\ pending_files' =
          [p \in DOMAIN pending_files |->
              [pending_files[p] EXCEPT !.age = Elapse(debounce_seconds, @)]]
    /\ pending_deletions' =
          [p \in DOMAIN pending_deletions |->
              Elapse(move_detection_window + 1, pending_deletions[p])]
    /\ last_delete' =
          [p \in DOMAIN last_delete |->
              [last_delete[p] EXCEPT
                  !.age = Elapse(move_detection_window + 1, @)]]
    /\ recreated' =
          [p \in DOMAIN recreated |->
              [recreated[p] EXCEPT !.age = Elapse(debounce_seconds, @)]]
    /\ UNCHANGED << files, store, stored, store_up, outages, cache, cache_file,
                    file_hashes, events, gen, burst, notified, execs, confirmed,
                    rescheduled, expect_move, rollbacks, manual_scan_timer, ingest, call >>

\* ------------------------------------------------------ ingest_directory
\* The documents of a file in the order process_file returns them.
DocumentSeq(p, c) ==
    [ k \in 1..Cardinality(Documents(p, c)) |->
        CHOOSE d \in Documents(p, c) : d.chunk_index = k - 1 ]

Range(seq) == { seq[k] : k \in 1..Len(seq) }

\* filtered_files: the files the glob patterns find, in directory order.
RECURSIVE FilteredFiles(_, _)
FilteredFiles(fs, order) ==
    IF order = << >> THEN << >>
    ELSE IF fs[Head(order)] # Absent
         THEN << Head(order) >> \o FilteredFiles(fs, Tail(order))
         ELSE FilteredFiles(fs, Tail(order))

DirectoryOrder == << "a.md", "b.md" >>

\* cleanup_deleted_files: the sources in the store whose file is gone lose
\* their chunks and their cache entry; a failing store query ends it.
DeletedSources(st, up, fs) ==
    IF up THEN { d.source : d \in { e \in st : fs[e.source] = Absent } } ELSE {}

\* ingest_directory up to the loop over the files.
IngestCleanup ==
    LET gone == DeletedSources(store, store_up, files)
        todo == FilteredFiles(files, DirectoryOrder)
    IN  /\ ingest.pc = "cleanup"
        /\ store' = { d \in store : d.source \notin gone }
        /\ stored' = stored \ gone
        /\ cache' = [p \in (DOMAIN cache) \ gone |-> cache[p]]
        /\ cache_file' = IF gone # {} THEN cache' ELSE cache_file
        /\ ingest' = [ingest EXCEPT !.todo = todo,
                         !.pc = IF todo = << >> THEN "save" ELSE "process"]
        /\ UNCHANGED << files, store_up, outages, pending_files,
                        pending_deletions, file_hashes, timers, running, events,
                        gen, burst, notified, execs, confirmed, recreated,
                        rescheduled, last_delete, expect_move, rollbacks, manual_scan_timer,
                    call >>

\* One turn of the loop over filtered_files: process_file(file_path, force).
IngestProcessFile ==
    LET p == Head(ingest.todo)
        skip == ProcessFileSkips(cache, files, p, ingest.force)
        docs == IF skip THEN << >> ELSE DocumentSeq(p, files[p])
        all == ingest.all_documents \o docs
    IN  /\ ingest.pc = "process"
        /\ store' = ProcessFileStore(store, store_up, cache, files, p, ingest.force)
        /\ UNCHANGED stored
        /\ cache' = ProcessFileCache(cache, files, p, ingest.force)
        /\ ingest' = [ingest EXCEPT
                         !.todo = Tail(@),
                         !.all_documents = all,
                         !.pc = IF Tail(ingest.todo) # << >> THEN "process"
                                ELSE IF all = << >> THEN "save" ELSE "batch"]
        /\ UNCHANGED << files, store_up, outages, cache_file, pending_files,
                        pending_deletions, file_hashes, timers, running, events,
                        gen, burst, notified, execs, confirmed, recreated,
                        rescheduled, last_delete, expect_move, rollbacks, manual_scan_timer,
                    call >>

\* One turn of the loop over the batches: the upsert of a batch, or its
\* failure, after which the loop continues with the next batch.
Min(x, y) == IF x < y THEN x ELSE y

IngestBatch ==
    LET total == Len(ingest.all_documents)
        batch == Range(SubSeq(ingest.all_documents, ingest.i + 1,
                              Min(ingest.i + batch_size, total)))
    IN  /\ ingest.pc = "batch"
        /\ store' = IF store_up THEN Upsert(store, batch) ELSE store
        /\ stored' = IF store_up THEN stored \cup { d.source : d \in batch }
                      ELSE stored
        /\ ingest' = [ingest EXCEPT
                         !.i = @ + batch_size,
                         !.failed = IF store_up THEN @
                                    ELSE @ \cup { d.source : d \in batch },
                         !.pc = IF ingest.i + batch_size >= total THEN "save"
                                ELSE "batch"]
        /\ UNCHANGED << files, store_up, outages, cache, cache_file,
                        pending_files, pending_deletions, file_hashes, timers,
                        running, events, gen, burst, notified, execs, confirmed,
                        recreated, rescheduled, last_delete, expect_move,
                        rollbacks, manual_scan_timer,
                    call >>

\* _save_cache() at the end of ingest_directory.
IngestSaveCache ==
    /\ ingest.pc = "save"
    /\ cache_file' = cache
    /\ ingest' = [ingest EXCEPT !.pc = "done"]
    /\ UNCHANGED << files, store, stored, store_up, outages, cache, pending_files,
                    pending_deletions, file_hashes, timers, running, events,
                    gen, burst, notified, execs, confirmed, recreated,
                    rescheduled, last_delete, expect_move, rollbacks, manual_scan_timer,
                    call >>

\* The next run, without force: a new process loads the saved cache.
IngestAgain ==
    /\ ingest.pc = "done"
    /\ ingest.runs < MaxRuns
    /\ cache' = cache_file
    /\ ingest' = [pc |-> "cleanup", force |-> FALSE, runs |-> ingest.runs + 1,
                  todo |-> << >>, all_documents |-> << >>, i |-> 0,
                  failed |-> {}, before |-> store]
    /\ UNCHANGED << files, store, stored, store_up, outages, cache_file, pending_files,
                    pending_deletions, file_hashes, timers, running, events,
                    gen, burst, notified, execs, confirmed, recreated,
                    rescheduled, last_delete, expect_move, rollbacks, manual_scan_timer,
                    call >>

\* No call of the API has been recorded.
NoCall == [op |-> "none"]

\* No run of ingest_directory: the watcher process does not call it.
Idle == [pc |-> "idle", force |-> FALSE, runs |-> 0, todo |-> << >>,
         all_documents |-> << >>, i |-> 0, failed |-> {}, before |-> {}]

\* ------------------------------------------------------- the specification
\* The watcher is constructed over a project whose file a.md is indexed:
\* its chunks are stored, its fingerprint is cached and saved, and
\* _initialize_file_hashes has recorded its hash.
InitialContent == [p \in Paths |-> IF p = "a.md" THEN 1 ELSE Absent]

Init ==
    /\ files = InitialContent
    /\ store = Documents("a.md", 1)
    /\ store_up = TRUE
    /\ outages = 0
    /\ cache = DictSet(EmptyDict, "a.md", CacheEntry(1))
    /\ cache_file = cache
    /\ pending_files = EmptyDict
    /\ pending_deletions = EmptyDict
    /\ file_hashes = DictSet(EmptyDict, "a.md", Hash(1))
    /\ timers = {}
    /\ running = {}
    /\ events = 0
    /\ gen = [p \in Paths |-> 0]
    /\ burst = [p \in Paths |-> 0]
    /\ notified = {}
    /\ execs = {}
    /\ confirmed = {}
    /\ recreated = EmptyDict
    /\ rescheduled = {}
    /\ last_delete = EmptyDict
    /\ expect_move = {}
    /\ rollbacks = {}
    /\ manual_scan_timer = "none"
    /\ stored = { d.source : d \in store }
    /\ ingest = Idle
    /\ call = NoCall

\* The watcher over a store that never fails.
Next ==
    \/ \E p \in Paths, c \in Contents : Modify(p, c, MaxEvents)
    \/ \E p \in Paths, c \in Contents : Create(p, c, MaxEvents)
    \/ \E p \in Paths : Remove(p, MaxEvents)
    \/ \E t \in timers : FireDeletion(t)
    \/ \E t \in timers : FireChange(t)
    \/ \E t \in timers : FireDebounce(t)
    \/ \E r \in running : ProcessStep(r)
    \/ \E r \in running : UpsertStep(r)
    \/ Tick

Spec == Init /\ [][Next]_vars

\* The watcher over a store that may fail.
NextFaulty ==
    \/ \E p \in Paths, c \in Contents : Modify(p, c, MaxFaultyEvents)
    \/ \E p \in Paths, c \in Contents : Create(p, c, MaxFaultyEvents)
    \/ \E p \in Paths : Remove(p, MaxFaultyEvents)
    \/ \E t \in timers : FireDeletion(t)
    \/ \E t \in timers : FireChange(t)
    \/ \E t \in timers : FireDebounce(t)
    \/ \E r \in running : ProcessStep(r)
    \/ \E r \in running : UpsertStep(r)
    \/ \E r \in running : RollbackStep(r)
    \/ StoreFails
    \/ StoreRecovers
    \/ Tick

SpecFaulty == Init /\ [][NextFaulty]_vars

\* ingest_directory is run over a project whose files were indexed by an
\* earlier run (with the contents indexed) and have since been edited,
\* added or removed (contents on disk).
Indexed(contents) ==
    UNION { Documents(p, contents[p]) : p \in { q \in Paths : contents[q] # Absent } }

InitBatch ==
    \E indexed \in [Paths -> Contents \cup {Absent}] :
      \E force \in BOOLEAN :
        /\ files \in [Paths -> Contents \cup {Absent}]
        /\ store = Indexed(indexed)
        /\ store_up = TRUE
        /\ outages = 0
        /\ cache = [p \in { q \in Paths : indexed[q] # Absent } |->
                        CacheEntry(indexed[p])]
        /\ cache_file = cache
        /\ pending_files = EmptyDict
        /\ pending_deletions = EmptyDict
        /\ file_hashes = EmptyDict
        /\ timers = {}
        /\ running = {}
        /\ events = 0
        /\ gen = [p \in Paths |-> 0]
        /\ burst = [p \in Paths |-> 0]
        /\ notified = {}
        /\ execs = {}
        /\ confirmed = {}
        /\ recreated = EmptyDict
        /\ rescheduled = {}
        /\ last_delete = EmptyDict
        /\ expect_move = {}
        /\ rollbacks = {}
        /\ manual_scan_timer = "none"
        /\ stored = { d.source : d \in store }
        /\ ingest = [pc |-> "cleanup", force |-> force, runs |-> 1,
                     todo |-> << >>, all_documents |-> << >>, i |-> 0,
                     failed |-> {}, before |-> store]
        /\ call = NoCall

NextBatch ==
    \/ IngestCleanup
    \/ IngestProcessFile
    \/ IngestBatch
    \/ IngestSaveCache
    \/ IngestAgain
    \/ StoreFails
    \/ StoreRecovers

SpecBatch == InitBatch /\ [][NextBatch]_vars

\* ------------------------------------------------- calls of the ingester
\* The state of the watcher, which a call of the ingester leaves alone.
watcher_vars == << pending_files, pending_deletions, file_hashes, timers,
                   running, events, gen, burst, notified, execs, confirmed,
                   recreated, rescheduled, last_delete, expect_move,
                   rollbacks, manual_scan_timer >>

watcher_vars_but_events ==
    << pending_files, pending_deletions, file_hashes, timers, running, gen,
       burst, notified, execs, confirmed, recreated, rescheduled, last_delete,
       expect_move, rollbacks, manual_scan_timer >>

\* No watcher has been started.
NoWatcher ==
    /\ pending_files = EmptyDict
    /\ pending_deletions = EmptyDict
    /\ file_hashes = EmptyDict
    /\ timers = {}
    /\ running = {}
    /\ events = 0
    /\ gen = [p \in Paths |-> 0]
    /\ burst = [p \in Paths |-> 0]
    /\ notified = {}
    /\ execs = {}
    /\ confirmed = {}
    /\ recreated = EmptyDict
    /\ rescheduled = {}
    /\ last_delete = EmptyDict
    /\ expect_move = {}
    /\ rollbacks = {}
    /\ manual_scan_timer = "none"
    /\ stored = { d.source : d \in store }

\* should_process_file(p) is called; the file can be read or not.
CallShouldProcess(p, readable) ==
    /\ call.n < MaxCalls
    /\ call' = [op |-> "should_process_file", n |-> call.n + 1, path |-> p,
                readable |-> readable,
                result |-> ShouldProcess(cache, files, p, readable)]
    /\ UNCHANGED << files, store, stored, store_up, outages, cache, cache_file,
                    ingest, watcher_vars >>

\* process_file(p, force) is called.
CallProcessFile(p, force) ==
    /\ call.n < MaxCalls
    /\ store' = ProcessFileStore(store, store_up, cache, files, p, force)
    /\ UNCHANGED stored
    /\ cache' = ProcessFileCache(cache, files, p, force)
    /\ call' = [op |-> "process_file", n |-> call.n + 1, path |-> p,
                force |-> force, prev |-> call.op,
                same_stat |-> /\ files[p] # Absent
                              /\ p \in DOMAIN cache
                              /\ cache[p].mtime = MTime(files[p])
                              /\ cache[p].size = Size(files[p]),
                documents |-> ProcessFileDocs(cache, files, p, force),
                skipped |-> ~force /\ ~should_process_file(cache, files, p)]
    /\ UNCHANGED << files, store_up, outages, cache_file, ingest,
                    watcher_vars >>

\* The file p is written: it gets the version v.
WriteFile(p, v) ==
    /\ call.n < MaxCalls
    /\ files[p] # v
    /\ files' = [files EXCEPT ![p] = v]
    /\ call' = [op |-> "write", n |-> call.n + 1, path |-> p,
                old |-> files[p]]
    /\ UNCHANGED << store, stored, store_up, outages, cache, cache_file, ingest,
                    watcher_vars >>

\* move_file_in_database(old, new) is called: one query, and when it finds
\* chunks one upsert and the move of the cache entry, which is saved.
CallMove(old, new) ==
    /\ call.n < MaxCalls
    /\ old # new
    /\ IF MoveSucceeds(store, store_up, old)
       THEN /\ store' = MoveStore(store, old, new)
            /\ stored' = (stored \ {old}) \cup {new}
            /\ cache' = MoveCache(cache, old, new)
            /\ cache_file' = IF old \in DOMAIN cache THEN cache' ELSE cache_file
       ELSE UNCHANGED << store, stored, cache, cache_file >>
    /\ call' = [op |-> "move_file_in_database", n |-> call.n + 1,
                old |-> old, new |-> new, cached |-> old \in DOMAIN cache,
                result |-> MoveSucceeds(store, store_up, old),
                upserts |-> IF MoveSucceeds(store, store_up, old) THEN 1 ELSE 0,
                deletes |-> 0]
    /\ UNCHANGED << files, store_up, outages, ingest, watcher_vars >>

\* What the cache file holds when an ingester is constructed.
CacheFileKinds == {"valid", "missing", "unreadable", "invalid"}

\* _load_cache: the parsed file, or the empty structure when the file does
\* not exist or when reading or parsing it raises.
LoadCacheUnguarded(kind, saved) ==
    [raised |-> kind \in {"unreadable", "invalid"},
     version |-> "1.0", last_updated |-> "saved",
     files |-> IF kind = "missing" THEN EmptyDict ELSE saved]

LoadCache(kind, saved) ==
    IF kind = "valid"
    THEN [raised |-> FALSE, version |-> "1.0", last_updated |-> "saved",
          files |-> saved]
    ELSE [raised |-> FALSE, version |-> "1.0", last_updated |-> "now",
          files |-> EmptyDict]

\* DocumentIngester.__init__: a new ingester loads the cache file.
CallLoadCache(kind) ==
    /\ call.n < MaxCalls
    /\ cache' = LoadCache(kind, cache_file).files
    /\ call' = [op |-> "_load_cache", n |-> call.n + 1, kind |-> kind,
                result |-> LoadCache(kind, cache_file)]
    /\ UNCHANGED << files, store, stored, store_up, outages, cache_file, ingest,
                    watcher_vars >>

\* The entries a cache can hold for the model's files.
CacheEntries == { UpdateFileCache(v, r) : v \in Versions, r \in BOOLEAN }

\* An ingester over a project whose file a.md has any version, is indexed or
\* not and has any cache entry or none, next to the file d/e/a.md, which is
\* indexed or not; there is no file b.md.
InitIngester ==
    \E a \in {Absent, 1} :
      \E deep \in BOOLEAN :
        \E entry \in CacheEntries, known \in BOOLEAN :
            /\ files \in [AllPaths -> Versions \cup {Absent}]
            /\ files[DeepPath] = IF deep THEN 2 ELSE Absent
            /\ files["b.md"] = Absent
            /\ store = (IF a = Absent THEN {} ELSE Documents("a.md", a))
                       \cup (IF deep THEN Documents(DeepPath, 2) ELSE {})
            /\ store_up = TRUE
            /\ outages = 0
            /\ cache = [p \in (IF known THEN {"a.md"} ELSE {})
                               \cup (IF deep THEN {DeepPath} ELSE {}) |->
                          IF p = "a.md" THEN entry ELSE CacheEntry(2)]
            /\ cache_file = cache
            /\ NoWatcher
            /\ ingest = Idle
            /\ call = [op |-> "none", n |-> 0]

NextIngester ==
    \/ \E p \in AllPaths, readable \in BOOLEAN : CallShouldProcess(p, readable)
    \/ \E p \in AllPaths, force \in BOOLEAN : CallProcessFile(p, force)
    \/ \E v \in Versions \cup {Absent} : WriteFile("a.md", v)
    \/ \E old \in AllPaths, new \in AllPaths : CallMove(old, new)
    \/ \E kind \in CacheFileKinds : CallLoadCache(kind)

SpecIngester == InitIngester /\ [][NextIngester]_vars

\* ------------------------------------------------------------ rename events
\* DocumentWatcher._should_process_file(p): the extension first, then the
\* path relative to the project directory, which raises ValueError for a
\* path that is not under it, then the excluded directories.
watcher_should_process_file(p) ==
    IF Lower(Suffix(p)) \notin supported_extensions THEN "no"
    ELSE IF p \in OutsidePaths THEN "raise"
    ELSE IF ExcludedIn(Dirs(p)) THEN "no"
    ELSE "yes"

Eligible(p) == watcher_should_process_file(p) = "yes"

\* The branch of on_moved as it would be taken if only the source counted.
OnMovedBranchSourceOnly(src, dest, dest_is) ==
    IF Eligible(src) THEN "deletion" ELSE "ignore"

\* The branch on_moved takes for endpoints inside the project; dest_is tells
\* what the handler finds at the destination: a readable file, a file it
\* cannot open, or nothing.
OnMovedBranch(src, dest, dest_is) ==
    IF Eligible(src) /\ Eligible(dest)
    THEN CASE dest_is = "missing" -> "deletion"
           [] dest_is = "unreadable" -> "later"
           [] OTHER -> "move"
    ELSE IF Eligible(src) THEN "deletion"
    ELSE IF Eligible(dest)
    THEN (IF dest_is = "missing" THEN "ignore" ELSE "creation")
    ELSE "ignore"

\* Delays of the timers on_moved starts (seconds; 0.5 s counts as one).
unreadable_delay == 2
moved_in_delay == 1

MovePaths == Paths \cup {TextPath, ExcludedPath}

\* The files after src was renamed to dest, the latter read as content c
\* unless it is gone again when the handler runs.
Renamed(src, dest, c, dest_is) ==
    [p \in Paths |-> IF p = dest
                     THEN (IF dest_is = "missing" THEN Absent ELSE c)
                     ELSE IF p = src THEN Absent ELSE files[p]]

\* A file is renamed and on_moved(src, dest) is delivered.
OnMoved(src, dest, c, dest_is, limit) ==
    LET branch == OnMovedBranch(src, dest, dest_is)
    IN  /\ events < limit
        /\ src # dest
        /\ src \in Paths => (files[src] # Absent /\ c = files[src])
        /\ events' = events + 1
        /\ call' = [op |-> "on_moved", event |-> events + 1, src |-> src,
                    dest |-> dest, dest_is |-> dest_is, raised |-> FALSE]
        /\ files' = Renamed(src, dest, c, dest_is)
        /\ expect_move' = Untouched(src) \cap Untouched(dest)
        /\ recreated' = DictDel(DictDel(recreated, src), dest)
        /\ last_delete' =
              IF branch = "deletion"
              THEN DictSet(last_delete, src,
                      [age |-> 0, ids |-> Ids(GetBySource(store, src)),
                       hash |-> IF src \in DOMAIN file_hashes
                                THEN file_hashes[src] ELSE -1])
              ELSE last_delete
        /\ CASE branch = "move" -> MoveFile(src, dest, c)
             [] branch = "deletion" ->
                  /\ ScheduleDelayedDeletion(src, timers)
                  /\ Quiet
                  /\ UNCHANGED << store, stored, cache, cache_file, file_hashes,
                                  pending_files >>
             [] branch = "later" ->
                  /\ timers' = timers \cup
                        {Timer("change", dest, unreadable_delay, events + 1, 0)}
                  /\ Quiet
                  /\ UNCHANGED << store, stored, cache, cache_file, file_hashes,
                                  pending_files, pending_deletions >>
             [] branch = "creation" ->
                  /\ timers' = timers \cup
                        {Timer("change", dest, moved_in_delay, events + 1, 0)}
                  /\ Quiet
                  /\ UNCHANGED << store, stored, cache, cache_file, file_hashes,
                                  pending_files, pending_deletions >>
             [] OTHER ->
                  /\ Quiet
                  /\ UNCHANGED << store, stored, cache, cache_file, file_hashes,
                                  pending_files, pending_deletions, timers >>
        /\ UNCHANGED << store_up, outages, running, execs, confirmed,
                        rescheduled, rollbacks, manual_scan_timer >>

\* on_created, on_modified or on_deleted is delivered for a path that is not
\* under the project directory: the eligibility check is the first thing
\* the handler does, outside any try block.
HandlerOps == {"on_created", "on_modified", "on_deleted"}

OnEventOutside(op, p, limit) ==
    /\ events < limit
    /\ p \in OutsidePaths
    /\ events' = events + 1
    /\ call' = [op |-> op, event |-> events + 1, path |-> p,
                raised |-> watcher_should_process_file(p) = "raise"]
    /\ UNCHANGED << files, store, stored, store_up, outages, cache, cache_file,
                    ingest, pending_files, pending_deletions, file_hashes,
                    timers, running, gen, burst, notified, execs, confirmed,
                    recreated, rescheduled, last_delete, expect_move,
                    rollbacks, manual_scan_timer >>

\* on_moved is delivered with an endpoint that is not under the project
\* directory.  A check that raises inside the try block is caught, and the
\* fallback of the except branch makes both checks again, unguarded: the
\* source is scheduled for deletion when it is eligible, before the check of
\* an endpoint raises out of the handler.
OnMovedOutside(src, dest, limit) ==
    LET raises == \/ watcher_should_process_file(src) = "raise"
                  \/ watcher_should_process_file(dest) = "raise"
    IN  /\ events < limit
        /\ src # dest
        /\ src \in OutsidePaths \/ dest \in OutsidePaths
        /\ src \in Paths => files[src] # Absent
        /\ events' = events + 1
        /\ files' = [p \in Paths |-> IF p = src THEN Absent ELSE files[p]]
        /\ call' = [op |-> "on_moved", event |-> events + 1, src |-> src,
                    dest |-> dest, dest_is |-> "file", raised |-> raises]
        /\ IF Eligible(src)
           THEN /\ ScheduleDelayedDeletion(src, timers)
                /\ last_delete' = DictSet(last_delete, src,
                       [age |-> 0, ids |-> Ids(GetBySource(store, src)),
                        hash |-> IF src \in DOMAIN file_hashes
                                 THEN file_hashes[src] ELSE -1])
                /\ recreated' = DictDel(recreated, src)
                /\ expect_move' = Untouched(src)
           ELSE UNCHANGED << pending_deletions, timers, last_delete,
                             recreated, expect_move >>
        /\ UNCHANGED << store, stored, store_up, outages, cache, cache_file, ingest,
                        pending_files, file_hashes, running, gen, burst,
                        notified, execs, confirmed, rescheduled, rollbacks, manual_scan_timer >>

DestinationStates == {"file", "unreadable", "missing"}

\* The watcher with rename events and events on paths outside the project.
NextMoves ==
    \/ \E p \in Paths, c \in Contents : Modify(p, c, MaxMoveEvents)
    \/ \E p \in Paths, c \in Contents : Create(p, c, MaxMoveEvents)
    \/ \E p \in Paths : Remove(p, MaxMoveEvents)
    \/ \E src \in MovePaths, dest \in MovePaths, c \in Contents,
          dest_is \in DestinationStates :
              OnMoved(src, dest, c, dest_is, MaxMoveEvents)
    \/ \E op \in HandlerOps, p \in OutsidePaths :
              OnEventOutside(op, p, MaxMoveEvents)
    \/ \E src \in MovePaths \cup OutsidePaths,
          dest \in MovePaths \cup OutsidePaths :
              OnMovedOutside(src, dest, MaxMoveEvents)
    \/ \E t \in timers : FireDeletion(t)
    \/ \E t \in timers : FireChange(t)
    \/ \E t \in timers : FireDebounce(t)
    \/ \E r \in running : ProcessStep(r)
    \/ \E r \in running : UpsertStep(r)
    \/ Tick

SpecMoves == Init /\ [][NextMoves]_vars

\* ------------------------------------------------- calls of _detect_file_move
NoSource == "none"

\* Ages of the pending deletions when the call is made: just deleted,
\* inside the window, at its end, past it.
DeletionAges == {0, 3, move_detection_window, move_detection_window + 1}

\* _detect_file_move(created) is called for a file that exists.  Of several
\* candidates with the best score and the same deletion time the sort keeps
\* the one that was deleted first in the dict: any of them.
CallDetectFileMove(created) ==
    LET best == BestCandidates(created, files[created])
    IN  /\ files[created] # Absent
        /\ call.op = "none"
        /\ \E src \in (IF best = {} THEN {NoSource} ELSE best) :
              call' = [op |-> "_detect_file_move", created |-> created,
                       result |-> src]
        /\ UNCHANGED << files, store, stored, store_up, outages, cache, cache_file,
                        ingest, watcher_vars >>

\* A watcher with any pending deletions, each of any age, with or without a
\* tracked hash and a cached size, and one file that has just appeared.  The
\* deleted files had the content k: that of version 1, or that of version 3,
\* which has the size of version 2 and another text.
InitDetect ==
    \E created \in AllPaths, c \in Contents, k \in {1, 3} :
      \E deleted \in SUBSET AllPaths :
        \E hashed \in SUBSET deleted, sized \in SUBSET deleted :
            /\ files = [p \in AllPaths |-> IF p = created THEN c ELSE Absent]
            /\ store = {}
            /\ store_up = TRUE
            /\ outages = 0
            /\ cache = [p \in sized |-> CacheEntry(k)]
            /\ cache_file = cache
            /\ pending_files = EmptyDict
            /\ pending_deletions \in [deleted -> DeletionAges]
            /\ file_hashes = [p \in hashed |-> Hash(k)]
            /\ timers = {}
            /\ running = {}
            /\ events = 0
            /\ gen = [p \in Paths |-> 0]
            /\ burst = [p \in Paths |-> 0]
            /\ notified = {}
            /\ execs = {}
            /\ confirmed = {}
            /\ recreated = EmptyDict
            /\ rescheduled = {}
            /\ last_delete = EmptyDict
            /\ expect_move = {}
            /\ rollbacks = {}
            /\ manual_scan_timer = "none"
            /\ stored = { d.source : d \in store }
            /\ ingest = Idle
            /\ call = NoCall

NextDetect == \E created \in AllPaths : CallDetectFileMove(created)

SpecDetect == InitDetect /\ [][NextDetect]_vars

\* ------------------------------------------------------- the periodic scan
\* DocumentWatcher.scan_interval (seconds).
scan_interval == 15

\* The timer _start_manual_scanning starts, and scan_for_changes starts again.
ScanTimer == Timer("scan", "", scan_interval, 0, 0)

\* A file is written or appears and no event is delivered for it.
SilentWrite(p, c, limit) ==
    /\ events < limit
    /\ files[p] # c
    /\ events' = events + 1
    /\ files' = [files EXCEPT ![p] = c]
    /\ call' = [op |-> "silent_write", path |-> p, event |-> events + 1]
    /\ UNCHANGED << store, stored, store_up, outages, cache, cache_file, ingest,
                    watcher_vars_but_events >>

\* _manual_scan_files, called by scan_for_changes when its timer fires: it
\* calls _check_file_changed_by_hash for every eligible file on disk and
\* _process_file_change for those it reports as changed. next is the set of
\* the timers other than those the scan starts for the changed files.
ManualScanFiles(t, next) ==
    LET changed == { p \in Paths : FileChangedByHash(file_hashes, files, p) }
        b(p) == IF SameBurst(p) THEN burst[p] ELSE burst[p] + 1
    IN  /\ t.kind = "scan"
        /\ Due(t)
        /\ file_hashes' = [p \in DOMAIN file_hashes \cup changed |->
                              IF p \in changed THEN Hash(files[p])
                              ELSE file_hashes[p]]
        /\ pending_deletions' = [p \in DOMAIN pending_deletions \ changed |->
                                    pending_deletions[p]]
        /\ pending_files' = [p \in DOMAIN pending_files \cup changed |->
                                IF p \in changed
                                THEN [age |-> 0, seq |-> gen[p] + 1]
                                ELSE pending_files[p]]
        /\ timers' = next
                     \cup { Timer("debounce", p, debounce_seconds,
                                  gen[p] + 1, b(p)) : p \in changed }
        /\ gen' = [p \in Paths |-> IF p \in changed THEN gen[p] + 1 ELSE gen[p]]
        /\ burst' = [p \in Paths |-> IF p \in changed THEN b(p) ELSE burst[p]]
        /\ notified' = notified \cup
              { [path |-> p, gen |-> gen[p] + 1, burst |-> b(p)] : p \in changed }
        /\ UNCHANGED << files, store, stored, store_up, outages, cache, cache_file,
                        ingest, call, events, execs, confirmed, recreated,
                        rescheduled, last_delete, expect_move, rollbacks >>

\* scan_for_changes as one step, when nothing stops the watcher meanwhile:
\* the scan, and the next scan scheduled in the finally clause.
ManualScan(t) ==
    /\ manual_scan_timer = "started"
    /\ ManualScanFiles(t, (timers \ {t}) \cup {ScanTimer})
    /\ UNCHANGED << running, manual_scan_timer >>

\* The watcher as its constructor leaves it: hashes recorded, scan timer
\* started.
InitScan ==
    /\ files = InitialContent
    /\ store = Documents("a.md", 1)
    /\ store_up = TRUE
    /\ outages = 0
    /\ cache = DictSet(EmptyDict, "a.md", CacheEntry(1))
    /\ cache_file = cache
    /\ pending_files = EmptyDict
    /\ pending_deletions = EmptyDict
    /\ file_hashes = DictSet(EmptyDict, "a.md", Hash(1))
    /\ timers = {ScanTimer}
    /\ running = {}
    /\ events = 0
    /\ gen = [p \in Paths |-> 0]
    /\ burst = [p \in Paths |-> 0]
    /\ notified = {}
    /\ execs = {}
    /\ confirmed = {}
    /\ recreated = EmptyDict
    /\ rescheduled = {}
    /\ last_delete = EmptyDict
    /\ expect_move = {}
    /\ rollbacks = {}
    /\ manual_scan_timer = "started"
    /\ stored = { d.source : d \in store }
    /\ ingest = Idle
    /\ call = NoCall

\* The watcher with its periodic scan, files written with and without
\* events, over a store that never fails.
NextScan ==
    \/ \E p \in Paths, c \in Contents : SilentWrite(p, c, MaxScanEvents)
    \/ \E p \in Paths, c \in Contents : Modify(p, c, MaxScanEvents)
    \/ \E t \in timers : ManualScan(t)
    \/ \E t \in timers : FireDebounce(t)
    \/ \E r \in running : ProcessStep(r)
    \/ \E r \in running : UpsertStep(r)
    \/ Tick

SpecScan == InitScan /\ [][NextScan]_vars

\* Time passes, started timers fire and started threads run to their end.
ScanFairness ==
    /\ WF_vars(Tick)
    /\ WF_vars(\E t \in timers : ManualScan(t))
    /\ WF_vars(\E t \in timers : FireDebounce(t))
    /\ WF_vars(\E r \in running : ProcessStep(r))
    /\ WF_vars(\E r \in running : UpsertStep(r))

SpecScanFair == SpecScan /\ ScanFairness

\* --------------------------------------------------------------- shutdown
\* Filesystem events in one behaviour of SpecStop.
MaxStopEvents == 2

\* The thread of a scan_for_changes callback, at position pc.
ScanThread(pc) ==
    [path |-> "", gen |-> 0, pc |-> pc, backup |-> {}, before |-> {},
     docs |-> {}, attempt |-> 0, sleep |-> 0]

\* _stop_manual_scanning has returned.
Stopped == call.op = "_stop_manual_scanning"

\* The scan timer fires: the try block of scan_for_changes.  The finally
\* clause is still to run.
ScanForChanges(t) ==
    /\ t.kind = "scan"
    /\ Due(t)
    /\ ManualScanFiles(t, timers \ {t})
    /\ running' = running \cup {ScanThread("scan_finally")}
    /\ UNCHANGED manual_scan_timer

\* The finally clause of scan_for_changes reads self.manual_scan_timer.
ScanFinally(r) ==
    /\ r.pc = "scan_finally"
    /\ running' = IF manual_scan_timer = "none" THEN running \ {r}
                  ELSE (running \ {r}) \cup {ScanThread("scan_reschedule")}
    /\ NoChange
    /\ UNCHANGED << files, store, stored, store_up, outages, cache, cache_file,
                    pending_files, pending_deletions, file_hashes, timers,
                    events, execs, confirmed, recreated, rescheduled,
                    last_delete, expect_move, rollbacks, manual_scan_timer >>

\* The finally clause of scan_for_changes, after its test: a new timer is
\* assigned to self.manual_scan_timer and started.
ScanReschedule(r) ==
    /\ r.pc = "scan_reschedule"
    /\ manual_scan_timer' = "started"
    /\ timers' = timers \cup {ScanTimer}
    /\ running' = running \ {r}
    /\ NoChange
    /\ UNCHANGED << files, store, stored, store_up, outages, cache, cache_file,
                    pending_files, pending_deletions, file_hashes, events,
                    execs, confirmed, recreated, rescheduled, last_delete,
                    expect_move, rollbacks >>

\* _stop_manual_scanning(), which main() calls once the observer has been
\* stopped and joined.  self.pending_moves is never written and stays empty.
\* The call records the timers that are scheduled when it returns.
StopManualScanning ==
    LET left == IF manual_scan_timer = "none" THEN timers
                ELSE { t \in timers : t.kind # "scan" }
    IN  /\ ~Stopped
        /\ timers' = left
        /\ manual_scan_timer' = "none"
        /\ pending_deletions' = EmptyDict
        /\ call' = [op |-> "_stop_manual_scanning",
                    scheduled |-> { << t.kind, t.path, t.gen >> : t \in left },
                    in_flight |-> { << r.path, r.gen >> : r \in running }]
        /\ UNCHANGED << gen, burst, notified, ingest >>
        /\ UNCHANGED << files, store, stored, store_up, outages, cache, cache_file,
                        pending_files, file_hashes, running, events, execs,
                        confirmed, recreated, rescheduled, last_delete,
                        expect_move, rollbacks >>

\* The watcher with its periodic scan until main() shuts it down: events
\* are delivered until the observer is stopped; the timers that are started
\* and the callbacks that are executing go on afterwards.
NextStop ==
    \/ \E p \in Paths, c \in Contents : ~Stopped /\ Modify(p, c, MaxStopEvents)
    \/ \E p \in Paths, c \in Contents : ~Stopped /\ Create(p, c, MaxStopEvents)
    \/ \E p \in Paths : ~Stopped /\ Remove(p, MaxStopEvents)
    \/ \E t \in timers : ScanForChanges(t)
    \/ \E r \in running : ScanFinally(r)
    \/ \E r \in running : ScanReschedule(r)
    \/ StopManualScanning
    \/ \E t \in timers : FireDeletion(t)
    \/ \E t \in timers : FireChange(t)
    \/ \E t \in timers : FireDebounce(t)
    \/ \E r \in running : ProcessStep(r)
    \/ \E r \in running : UpsertStep(r)
    \/ Tick

SpecStop == InitScan /\ [][NextStop]_vars

\* ------------------------------------------------------ _retry_with_backoff
\* What one invocation of the operation does: it returns a value or raises
\* an exception.
Outcomes == [ok : BOOLEAN, value : 1..2]

\* _retry_with_backoff(operation, max_retries=m) is entered.
RetryCall(m) ==
    [op |-> "_retry_with_backoff", max_retries |-> m, pc |-> "try",
     attempt |-> 0, last_exception |-> 0, left |-> 0, slept |-> 0,
     history |-> << >>, waits |-> << >>, result |-> [kind |-> "none"]]

\* One turn of the loop: the operation is invoked and does o.  A value is
\* returned at once; an exception is kept, and the loop sleeps when another
\* attempt is left, and otherwise ends and the last exception is raised.
RetryAttempt(o) ==
    /\ call.op = "_retry_with_backoff"
    /\ call.pc = "try"
    /\ call' =
         IF o.ok
         THEN [call EXCEPT !.history = Append(@, o), !.pc = "done",
                           !.result = [kind |-> "returned", value |-> o.value]]
         ELSE IF call.attempt < call.max_retries
         THEN [call EXCEPT !.history = Append(@, o), !.pc = "sleep",
                           !.last_exception = o.value,
                           !.left = BackoffDelay(call.attempt), !.slept = 0]
         ELSE [call EXCEPT !.history = Append(@, o), !.pc = "done",
                           !.last_exception = o.value,
                           !.result = [kind |-> "raised", value |-> o.value]]
    /\ UNCHANGED << files, store, stored, store_up, outages, cache, cache_file,
                    ingest, watcher_vars >>

\* One second of time.sleep(delay); after the last one the loop goes on
\* with the next attempt.
RetrySleep ==
    /\ call.op = "_retry_with_backoff"
    /\ call.pc = "sleep"
    /\ call' =
         IF call.left > 1
         THEN [call EXCEPT !.left = @ - 1, !.slept = @ + 1]
         ELSE [call EXCEPT !.left = 0, !.slept = 0, !.pc = "try",
                           !.attempt = @ + 1,
                           !.waits = Append(@, call.slept + 1)]
    /\ UNCHANGED << files, store, stored, store_up, outages, cache, cache_file,
                    ingest, watcher_vars >>

\* A call of _retry_with_backoff with any retry count up to the default,
\* for an operation that fails and succeeds in any order.
InitRetry ==
    /\ files = InitialContent
    /\ store = {}
    /\ store_up = TRUE
    /\ outages = 0
    /\ cache = EmptyDict
    /\ cache_file = EmptyDict
    /\ NoWatcher
    /\ ingest = Idle
    /\ \E m \in 0..max_retries : call = RetryCall(m)

NextRetry ==
    \/ \E o \in Outcomes : RetryAttempt(o)
    \/ RetrySleep

SpecRetry == InitRetry /\ [][NextRetry]_vars

\* ----------------------------------------------- what counts as indexable
\* The suffixes of the default file_patterns of ingest_directory ('**/*.md'
\* and so on): the supported formats, and the unsupported ones that are
\* globbed to be reported.
unsupported_text_formats ==
    { ".doc", ".odt", ".pages", ".org", ".adoc", ".asciidoc" }
file_patterns == supported_extensions \cup unsupported_text_formats

\* The suffixes process_file has an extraction method for: its dispatch on
\* file_path.suffix.lower().
ExtractionSuffixes ==
    { ".pdf", ".md", ".txt", ".rtf", ".docx", ".html", ".htm", ".json",
      ".xml", ".yaml", ".yml", ".rst", ".tex", ".log", ".csv", ".tsv" }

\* The resolved project directory, and a file under it: the directories of
\* its project-relative path and its suffix as written on disk.
ProjectDirs == { << "home", "proj" >>, << "home", "code", "proj" >> }
ProjectFiles ==
    [dirs : { << >>, << "d" >>, << "code" >>, << "barcode" >>, << ".git" >>,
              << "d", "e" >> },
     suffix : { ".md", ".MD", ".txt", ".Txt", ".pdf", ".doc", ".DOC", ".py" }]

\* DocumentWatcher._should_process_file for a file under the project
\* directory.
WatcherShouldProcess(f) ==
    /\ Lower(f.suffix) \in supported_extensions
    /\ ~ExcludedIn(f.dirs)

\* directory.glob(pattern) for the default patterns finds f: the name ends
\* in the suffix of a pattern, compared as written.
GlobMatches(f) == f.suffix \in file_patterns

\* filtered_files of ingest_directory(directory): the globbed files without
\* those whose str(f), which starts with the directory, has an excluded
\* substring.
IngestDirectorySelects(directory, f) ==
    /\ GlobMatches(f)
    /\ ~ExcludedIn(directory \o f.dirs)

\* process_file finds an extraction method for f.
HasExtractionMethod(f) == Lower(f.suffix) \in ExtractionSuffixes

\* The two predicates are evaluated for a file of the project.
CallWatcherShouldProcess ==
    /\ call.op = "indexable"
    /\ call.watcher = "?"
    /\ call' = [call EXCEPT !.watcher = IF WatcherShouldProcess(call.file)
                                        THEN "yes" ELSE "no"]
    /\ UNCHANGED << files, store, stored, store_up, outages, cache, cache_file,
                    ingest, watcher_vars >>

CallIngestDirectorySelects ==
    /\ call.op = "indexable"
    /\ call.batch = "?"
    /\ call' = [call EXCEPT
                  !.batch = IF /\ IngestDirectorySelects(call.project_dir,
                                                         call.file)
                               /\ HasExtractionMethod(call.file)
                            THEN "yes" ELSE "no"]
    /\ UNCHANGED << files, store, stored, store_up, outages, cache, cache_file,
                    ingest, watcher_vars >>

InitIndexable ==
    /\ files = InitialContent
    /\ store = {}
    /\ store_up = TRUE
    /\ outages = 0
    /\ cache = EmptyDict
    /\ cache_file = EmptyDict
    /\ NoWatcher
    /\ ingest = Idle
    /\ \E d \in ProjectDirs, f \in ProjectFiles :
          call = [op |-> "indexable", project_dir |-> d, file |-> f,
                  watcher |-> "?", batch |-> "?"]

NextIndexable ==
    \/ CallWatcherShouldProcess
    \/ CallIngestDirectorySelects

SpecIndexable == InitIndexable /\ [][NextIndexable]_vars

\* ------------------------------------------------- files without any text
\* The watcher over files that may be rewritten to white space only or to
\* bytes no extraction method reads.
MaxEmptyEvents == 2
WrittenContents == Contents \cup NoTextContents

NextEmpty ==
    \/ \E p \in Paths, c \in WrittenContents : Modify(p, c, MaxEmptyEvents)
    \/ \E p \in Paths, c \in WrittenContents : Create(p, c, MaxEmptyEvents)
    \/ \E p \in Paths : Remove(p, MaxEmptyEvents)
    \/ \E t \in timers : FireDeletion(t)
    \/ \E t \in timers : FireChange(t)
    \/ \E t \in timers : FireDebounce(t)
    \/ \E r \in running : ProcessStep(r)
    \/ \E r \in running : UpsertStep(r)
    \/ Tick

SpecEmpty == Init /\ [][NextEmpty]_vars

\* ------------------------------------- the hash check, step by step
\* on_modified runs on the observer thread and the scan on its timer thread,
\* and nothing serialises their calls of _check_file_changed_by_hash.  The
\* call made by on_modified is split where it reads file_hashes: the scan
\* may run between the read and the comparison that records the new hash.
MaxHashEvents == 2

\* The observer thread delivers one event at a time.
CheckInFlight == call.op = "on_modified" /\ call.pc = "read"

\* A file is written in place, on_modified is delivered, and
\* _check_file_changed_by_hash computes the hash of the file and reads the
\* last known one (-1 for none).
OnModifiedRead(p, c, limit) ==
    /\ events < limit
    /\ ~CheckInFlight
    /\ files[p] # Absent
    /\ c # files[p]
    /\ events' = events + 1
    /\ files' = [files EXCEPT ![p] = c]
    /\ expect_move' = Untouched(p)
    /\ recreated' = [q \in DOMAIN recreated |->
                        IF q = p THEN [recreated[q] EXCEPT !.modified = TRUE]
                        ELSE recreated[q]]
    /\ call' = [op |-> "on_modified", pc |-> "read", path |-> p,
                current_hash |-> Hash(c),
                last_hash |-> IF p \in DOMAIN file_hashes THEN file_hashes[p]
                              ELSE -1]
    /\ Quiet
    /\ UNCHANGED << store, stored, store_up, outages, cache, cache_file,
                    file_hashes, pending_deletions, pending_files, timers,
                    running, execs, confirmed, rescheduled, last_delete,
                    rollbacks, manual_scan_timer >>

\* The rest of that call and of on_modified: the comparison, the new hash
\* recorded, and _process_file_change when the hashes differ.
OnModifiedRecord ==
    /\ CheckInFlight
    /\ call' = [call EXCEPT !.pc = "done"]
    /\ IF call.last_hash # call.current_hash
       THEN /\ file_hashes' = DictSet(file_hashes, call.path, call.current_hash)
            /\ StartDebounce(call.path, pending_deletions, pending_files, timers)
       ELSE /\ UNCHANGED << file_hashes, pending_deletions, pending_files, timers >>
            /\ Quiet
    /\ UNCHANGED << files, store, stored, store_up, outages, cache, cache_file,
                    running, events, execs, confirmed, recreated, rescheduled,
                    last_delete, expect_move, rollbacks, manual_scan_timer >>

\* The watcher with its periodic scan and file events.
NextHash ==
    \/ \E p \in Paths, c \in Contents : OnModifiedRead(p, c, MaxHashEvents)
    \/ OnModifiedRecord
    \/ \E p \in Paths, c \in Contents :
          ~CheckInFlight /\ Create(p, c, MaxHashEvents)
    \/ \E t \in timers : ManualScan(t)
    \/ \E t \in timers : FireChange(t)
    \/ \E t \in timers : FireDebounce(t)
    \/ \E r \in running : ProcessStep(r)
    \/ \E r \in running : UpsertStep(r)
    \/ Tick

SpecHash == InitScan /\ [][NextHash]_vars

\* ------------------------------------------ chunk_text and retrieve_section
\* chunk_text(text, chunk_size, overlap) turn by turn of its while loop, for
\* every text over a small alphabet and every 0 <= overlap < chunk_size, and
\* retrieve_section over the chunks of a text chunked as process_file does.
MaxTextLen == 6
MaxChunkSize == 4
\* The chunks of a call that does not end grow without bound; the model
\* keeps the first MaxChunks of them, more than any call that ends appends.
MaxChunks == 16
Alphabet == {"a", "b", "."}
Texts == UNION { [1..n -> Alphabet] : n \in 0..MaxTextLen }

\* Python's text[i] and text[a:b] for indices that may be negative.  PyChar
\* is asked only for -len <= i < len; below -len the code raises IndexError.
PyIndex(s, i) == IF i < 0 THEN i + Len(s) ELSE i
PyChar(s, i) == s[PyIndex(s, i) + 1]
PyBound(s, i) ==
    IF i < 0 THEN (IF i + Len(s) < 0 THEN 0 ELSE i + Len(s))
    ELSE Min(i, Len(s))
PySlice(s, a, b) ==
    IF PyBound(s, a) >= PyBound(s, b) THEN << >>
    ELSE Slice(s, PyBound(s, a), PyBound(s, b))

\* The inner while loop of chunk_text for any start: end moves back to a
\* sentence boundary, at most down to start + chunk_size // 2.  A result
\* below -len(text) stands for the IndexError of text[end].
RECURSIVE BreakBack(_, _, _, _)
BreakBack(s, start, end, cs) ==
    IF end > start + (cs \div 2) /\ end >= -Len(s) /\ ~IsBoundary(PyChar(s, end))
    THEN BreakBack(s, start, end - 1, cs)
    ELSE end

\* chunk_text(text, cs, ov) is entered.
ChunkTextCall(s, cs, ov) ==
    [op |-> "chunk_text", text |-> s, chunk_size |-> cs, overlap |-> ov,
     pc |-> "entry", start |-> 0, chunks |-> << >>, turns |-> 0]

Appended(chunks, c) ==
    IF Len(chunks) < MaxChunks THEN Append(chunks, c) ELSE chunks

\* The test before the loop: a text of at most chunk_size is one chunk.
ChunkTextEnter ==
    /\ call.op = "chunk_text"
    /\ call.pc = "entry"
    /\ call' = IF Len(call.text) <= call.chunk_size
               THEN [call EXCEPT !.pc = "returned", !.chunks = << call.text >>]
               ELSE [call EXCEPT !.pc = "loop"]
    /\ UNCHANGED << files, store, stored, store_up, outages, cache, cache_file,
                    ingest, watcher_vars >>

\* One turn of the loop of chunk_text; turns counts them modulo
\* MaxChunks + 1.
ChunkTextTurn ==
    LET s == call.text
        start == call.start
        end == start + call.chunk_size
        e == BreakBack(s, start, end, call.chunk_size)
    IN  /\ call.op = "chunk_text"
        /\ call.pc = "loop"
        /\ call' =
             IF ~(start < Len(s))
             THEN [call EXCEPT !.pc = "returned"]
             ELSE IF end >= Len(s)
             THEN [call EXCEPT !.pc = "returned",
                               !.chunks = Appended(@, PySlice(s, start, Len(s)))]
             ELSE IF e < -Len(s)
             THEN [call EXCEPT !.pc = "raised"]
             ELSE [call EXCEPT !.chunks = Appended(@, PySlice(s, start, e)),
                               !.start = e - call.overlap,
                               !.turns = (@ + 1) % (MaxChunks + 1)]
        /\ UNCHANGED << files, store, stored, store_up, outages, cache, cache_file,
                        ingest, watcher_vars >>

\* DocumentRetriever.find_overlap(text1, text2): the longest overlap of the
\* end of text1 and the start of text2, between min_overlap and
\* max_overlap_checked characters, and 0 when there is none.  The code's 50
\* and 200 are scaled with overlap: at most overlap, and at least overlap.
min_overlap == 1
max_overlap_checked == 2
Tail_n(s, n) == Slice(s, Len(s) - n, Len(s))
find_overlap(text1, text2) ==
    LET max_overlap == Min(Min(Len(text1), Len(text2)), max_overlap_checked)
        found == { n \in min_overlap..max_overlap :
                      Tail_n(text1, n) = Slice(text2, 0, n) }
    IN  IF found = {} THEN 0 ELSE CHOOSE n \in found : \A m \in found : m <= n

\* The loop of retrieve_section over the sorted chunks: the overlap found is
\* cut from the start of the next chunk; a chunk with no overlap found is
\* appended after a space.
RECURSIVE CombineChunks(_, _, _)
CombineChunks(combined_text, chunks, i) ==
    IF i > Len(chunks) THEN combined_text
    ELSE LET overlap_len == find_overlap(combined_text, chunks[i])
         IN  CombineChunks(
                 IF overlap_len > 0
                 THEN combined_text \o Slice(chunks[i], overlap_len, Len(chunks[i]))
                 ELSE combined_text \o << " " >> \o chunks[i],
                 chunks, i + 1)

\* retrieve_section(source, 0, n) for a source whose n + 1 chunks are those
\* chunk_text returned to process_file (default chunk_size and overlap).
RetrieveSection ==
    /\ call.op = "chunk_text"
    /\ call.pc = "returned"
    /\ call.chunk_size = chunk_size
    /\ call.overlap = overlap
    /\ call' = [op |-> "retrieve_section", original |-> call.text,
                chunks |-> call.chunks,
                text |-> CombineChunks(call.chunks[1], call.chunks, 2)]
    /\ UNCHANGED << files, store, stored, store_up, outages, cache, cache_file,
                    ingest, watcher_vars >>

InitChunk ==
    /\ files = InitialContent
    /\ store = {}
    /\ store_up = TRUE
    /\ outages = 0
    /\ cache = EmptyDict
    /\ cache_file = EmptyDict
    /\ NoWatcher
    /\ ingest = Idle
    /\ \E s \in Texts, cs \in 2..MaxChunkSize :
          \E ov \in 0..(cs - 1) : call = ChunkTextCall(s, cs, ov)

NextChunk ==
    \/ ChunkTextEnter
    \/ ChunkTextTurn
    \/ RetrieveSection

SpecChunk == InitChunk /\ [][NextChunk]_vars

\* A call that is not blocked goes on.
SpecChunkFair == SpecChunk /\ WF_vars(ChunkTextEnter) /\ WF_vars(ChunkTextTurn)

\* ------------------------------------------------------------ convergence
\* The watcher with its periodic scan over a store that may fail for a
\* while: files are written with and without events, then the writes stop.
MaxConvergeEvents == 1

NextConverge ==
    \/ \E p \in Paths, c \in Contents : SilentWrite(p, c, MaxConvergeEvents)
    \/ \E p \in Paths, c \in Contents : Modify(p, c, MaxConvergeEvents)
    \/ \E t \in timers : ManualScan(t)
    \/ \E t \in timers : FireDebounce(t)
    \/ \E r \in running : ProcessStep(r)
    \/ \E r \in running : UpsertStep(r)
    \/ \E r \in running : RollbackStep(r)
    \/ StoreFails
    \/ StoreRecovers
    \/ Tick

SpecConverge == InitScan /\ [][NextConverge]_vars

\* Time passes, started timers fire, started threads run to their end, and
\* a store that fails recovers.
SpecConvergeFair ==
    /\ SpecConverge
    /\ ScanFairness
    /\ WF_vars(\E r \in running : RollbackStep(r))
    /\ WF_vars(StoreRecovers)

\* ------------------------------------------------------------- properties
\* Nothing is scheduled and no callback is in flight.
Quiescent == timers = {} /\ running = {}

\* The calls of _process_file_change(p) that make up burst b, the debounce
\* timers of the burst that have not fired, and the timers of the burst
\* that went past the staleness check.
BurstCalls(p, b) == { n \in notified : n.path = p /\ n.burst = b }
BurstTimers(p, b) ==
    { t \in timers : t.kind = "debounce" /\ t.path = p /\ t.burst = b }
BurstExecs(p, b) == { e \in execs : e.path = p /\ e.burst = b }

\* C1: of a burst of two or more change notifications for one path, each
\* less than debounce_seconds after the one before, at most one debounce
\* timer goes past the staleness check and reprocesses the file, and one
\* has gone past the check once all of them have fired.
C1_BurstExecutedOnce ==
    \A p \in Paths : \A b \in 1..burst[p] :
        Cardinality(BurstCalls(p, b)) >= 2 =>
            /\ Cardinality({ e \in BurstExecs(p, b) : e.processed }) <= 1
            /\ BurstTimers(p, b) = {} => BurstExecs(p, b) # {}

\* C2: a debounce timer does no processing (no backup, no store or cache
\* write) when a later change notification for its path was recorded after
\* the notification that started it.
C2_SupersededTimerIsStale ==
    \A e \in execs : e.superseded => ~e.processed

\* C3: when a path that has chunks in the store is deleted and created again
\* within atomic_operation_delay, no confirmed deletion removes its chunks,
\* and once every timer has fired and every callback has ended the store
\* holds for the path exactly the chunks of the created content (as long as
\* no later event changes the file).
C3_AtomicWriteTransparent ==
    /\ \A r \in confirmed : ~r.recreated
    /\ Quiescent =>
          \A p \in DOMAIN recreated :
              (last_delete[p].ids # {} /\ ~recreated[p].modified) =>
                  GetBySource(store, p) = Documents(p, recreated[p].content)

\* C4: a deletion is confirmed (chunks, cache entry and hash removed) only
\* where a pending deletion of the path exists, at least
\* atomic_operation_delay has passed since the last delete event of the
\* path, and the file is absent.
C4_GracePeriodSafety ==
    \A r \in confirmed :
        /\ r.pending
        /\ r.since_delete >= atomic_operation_delay
        /\ r.absent

\* A deletion was confirmed for a path whose earlier delete event had been
\* cancelled by a create and which was then deleted again.
C4_RescheduledDeletionConfirmed ==
    \E r \in confirmed : r.rescheduled

\* C5: once the grace period of a delete event has passed and its timer has
\* fired, a file that stays absent has no chunk in the store, no cache entry
\* and no tracked hash.
C5_ConfirmedDeletion ==
    \A p \in DOMAIN last_delete :
        ( /\ files[p] = Absent
          /\ last_delete[p].age >= atomic_operation_delay
          /\ ~ \E t \in timers : t.kind = "deletion" /\ t.path = p )
        => /\ GetBySource(store, p) = {}
           /\ p \notin DOMAIN cache
           /\ p \notin DOMAIN file_hashes

\* C6: after on_deleted(A), an on_created(B) inside move_detection_window
\* whose content has the hash tracked for A leaves B with the chunk ids A
\* had and A with no chunk.
C6_MovePreserved ==
    Quiescent =>
        \A m \in expect_move :
            /\ Ids(GetBySource(store, m.new)) = m.ids
            /\ GetBySource(store, m.old) = {}

\* C7: a reprocessing that ends in the rollback branch leaves the store
\* with the chunks the path had when the reprocessing started.
C7_RollbackRestores ==
    \A r \in rollbacks : r.after = r.before

\* C8: between process_file and the caller's upsert the store holds for the
\* path either exactly the chunks it held before the replace or exactly the
\* new chunks.
C8_PreOrPostImage ==
    \A r \in running :
        r.pc = "upsert" => GetBySource(store, r.path) \in {r.before, r.docs}

\* The content a cache entry is the fingerprint of, and the chunks of a
\* document set without their ids and source.
ContentOf(entry) == CHOOSE c \in Contents : Hash(c) = entry.hash
Payload(docs) == { << d.chunk_index, d.content >> : d \in docs }

\* C9: a step that creates or changes the cache entry of a path leaves the
\* store holding the chunks of the content the entry is the fingerprint of.
C9_CacheAfterStore ==
    [][ \A p \in Paths :
          ( /\ p \in DOMAIN cache'
            /\ (p \notin DOMAIN cache \/ cache'[p] # cache[p]) )
          => Payload(GetBySource(store', p))
                = Payload(Documents(p, ContentOf(cache'[p]))) ]_vars

\* C10: after the upsert of a batch failed, every file with chunks in that
\* batch still has its previous chunks in the store, and once the run has
\* saved the cache the saved entry does not make the next run skip the file.
C10_FailedBatchNotHalfApplied ==
    \A p \in ingest.failed :
        /\ GetBySource(store, p) = GetBySource(ingest.before, p)
        /\ ingest.pc = "done" => should_process_file(cache_file, files, p)

\* ---------------------------------------------------- the ingester's API
\* The step is a call of should_process_file.
IsShouldProcess == call'.op = "should_process_file"

\* The cached entry of p has the mtime and the size of the file.
SameStat(ch, fs, p) ==
    /\ p \in DOMAIN ch
    /\ ch[p].mtime = MTime(fs[p])
    /\ ch[p].size = Size(fs[p])

IsProcessFile(p, force) ==
    /\ call'.op = "process_file"
    /\ call'.path = p
    /\ call'.force = force

\* The step is process_file(p, FALSE) right after the file p, processed at
\* its former content, got a content with another hash.
IsThirdCall(p) ==
    /\ IsProcessFile(p, FALSE)
    /\ call.op = "write"
    /\ call.path = p
    /\ call.old # Absent
    /\ files[p] # Absent
    /\ p \in DOMAIN cache
    /\ cache[p] = CacheEntry(call.old)
    /\ Hash(files[p]) # Hash(call.old)

\* The first call on a file without a cache entry does the work; a second
\* call right after a call that did the work returns no chunk, records the
\* file as skipped and changes neither the store nor the cache; force=True
\* reprocesses the file whatever the cache says.
ShortCircuit(p) ==
    /\ (IsProcessFile(p, FALSE) /\ files[p] # Absent /\ p \notin DOMAIN cache)
          => /\ call'.documents = Documents(p, files[p])
             /\ ~call'.skipped
    /\ (IsProcessFile(p, FALSE) /\ call.op = "process_file" /\ call.path = p
          /\ call.documents # {})
          => /\ call'.documents = {}
             /\ call'.skipped
             /\ store' = store
             /\ cache' = cache
    /\ (IsProcessFile(p, TRUE) /\ files[p] # Absent)
          => /\ call'.documents = Documents(p, files[p])
             /\ cache'[p] = CacheEntry(files[p])

\* C12 as stated: fingerprint short-circuit, and after the content of the
\* file changed (another hash, even with the cached mtime and size) the
\* third call reprocesses it.
C12_ShortCircuitAsStated ==
    [][\A p \in AllPaths :
         /\ ShortCircuit(p)
         /\ IsThirdCall(p) => call'.documents = Documents(p, files[p])]_vars

\* C12 amended: the third call reprocesses the changed file when its mtime
\* or size changed too, or when the file is below the size limit under which
\* hashes are recorded and compared.
C12_ShortCircuit ==
    [][\A p \in AllPaths :
         /\ ShortCircuit(p)
         /\ (IsThirdCall(p) /\ (~SameStat(cache, files, p)
                                \/ Size(files[p]) < hash_size_limit))
               => call'.documents = Documents(p, files[p])]_vars

\* A file was written with the cached mtime and size and then reprocessed by
\* process_file(force=False).
C12_ReprocessedByHash ==
    /\ call.op = "process_file"
    /\ ~call.force
    /\ call.prev = "write"
    /\ call.same_stat
    /\ call.documents # {}

IsMove == call'.op = "move_file_in_database"

\* The chunks of st without the fields that depend on the path.
ChunkContents(st) == { [id |-> d.id, content |-> d.content] : d \in st }

\* C14: move_file_in_database(old, new) with chunks under old returns true,
\* keeps the chunk IDs and contents, gives every moved chunk the source,
\* filename and directory-level metadata of new, leaves no chunk with source
\* old and no other chunk changed, with one upsert and no delete.
C14_MoveRewritesMetadata ==
    [][(IsMove /\ GetBySource(store, call'.old) # {}) =>
         LET old == call'.old
             new == call'.new
             moved == Ids(GetBySource(store, old))
         IN  /\ call'.result
             /\ ChunkContents(store') = ChunkContents(store)
             /\ \A d \in store' : d.id \in moved =>
                   /\ d.source = new
                   /\ d.filename = Name(new)
                   /\ d.path_depth = PathMetadata(new).path_depth
                   /\ d.parent_dir = PathMetadata(new).parent_dir
                   /\ d.path_levels = PathMetadata(new).path_levels
             /\ GetBySource(store', old) = {}
             /\ { d \in store' : d.id \notin moved }
                   = { d \in store : d.id \notin moved }
             /\ call'.upserts = 1
             /\ call'.deletes = 0]_vars

\* C15: move_file_in_database(old, new) without chunks under old returns
\* false and changes neither the store nor the cache, in memory or saved.
C15_MoveWithoutChunksIsNoOp ==
    [][(IsMove /\ GetBySource(store, call'.old) = {}) =>
         /\ ~call'.result
         /\ store' = store
         /\ cache' = cache
         /\ cache_file' = cache_file]_vars

\* A move was refused for a path that has a cache entry but no chunk.
C15_MoveRefused ==
    /\ call.op = "move_file_in_database"
    /\ ~call.result
    /\ GetBySource(store, call.old) = {}
    /\ call.old \in DOMAIN cache

\* ------------------------------------------------------ rename events
\* The step is on_moved(src, dest) finding dest_is at the destination.
IsOnMoved(src, dest, dest_is) ==
    /\ events' = events + 1
    /\ call'.op = "on_moved"
    /\ call'.event = events'
    /\ call'.src = src
    /\ call'.dest = dest
    /\ call'.dest_is = dest_is

\* A database move: the chunks of src are under dest with their ids and
\* contents, none is left under src, and nothing is scheduled.
MovedInDatabase(src, dest) ==
    /\ ChunkContents(GetBySource(store, src))
          \subseteq ChunkContents(GetBySource(store', dest))
    /\ GetBySource(store', src) = {}
    /\ GetBySource(store, src) = {} => store' = store
    /\ GetBySource(store, src) # {} => timers' = timers

\* A delayed deletion of src: recorded now, decided by a timer later.
DeletionScheduled(src) ==
    /\ src \in DOMAIN pending_deletions'
    /\ pending_deletions'[src] = 0
    /\ \E t \in timers' \ timers :
          t.kind = "deletion" /\ t.path = src /\ t.left = atomic_operation_delay
    /\ store' = store

\* The destination is going to be processed as a new file.
CreationScheduled(dest) ==
    /\ \E t \in timers' \ timers : t.kind = "change" /\ t.path = dest
    /\ store' = store

\* No state of the watcher, the store or the cache changes.
NothingChanges ==
    UNCHANGED << store, cache, cache_file, pending_files, pending_deletions,
                 file_hashes, timers, running, gen, burst, notified, execs >>

\* C16 as stated: on_moved is classified by the eligibility of its two
\* endpoints alone: both eligible is a database move, only the source a
\* delayed deletion of the source, only the destination the processing of
\* the destination as a creation, neither changes nothing.
C16_OnMovedAsStated ==
    [][\A src \in MovePaths, dest \in MovePaths, dest_is \in DestinationStates :
         IsOnMoved(src, dest, dest_is) =>
            /\ (Eligible(src) /\ Eligible(dest)) => MovedInDatabase(src, dest)
            /\ (Eligible(src) /\ ~Eligible(dest)) => DeletionScheduled(src)
            /\ (~Eligible(src) /\ Eligible(dest)) => CreationScheduled(dest)
            /\ (~Eligible(src) /\ ~Eligible(dest)) => NothingChanges]_vars

\* C16 amended: the classification also depends on what the handler finds at
\* an eligible destination.  Both eligible: a database move when the
\* destination is a readable file, a delayed deletion of the source when it
\* does not exist, a delayed processing of the destination when it cannot be
\* read.  Only the source eligible: a delayed deletion of the source.  Only
\* the destination eligible: processed as a creation when it exists, nothing
\* otherwise.  Neither eligible: nothing changes.
C16_OnMoved ==
    [][\A src \in MovePaths, dest \in MovePaths, dest_is \in DestinationStates :
         IsOnMoved(src, dest, dest_is) =>
            /\ (Eligible(src) /\ Eligible(dest) /\ dest_is = "file")
                  => MovedInDatabase(src, dest)
            /\ (Eligible(src) /\ Eligible(dest) /\ dest_is = "missing")
                  => DeletionScheduled(src)
            /\ (Eligible(src) /\ Eligible(dest) /\ dest_is = "unreadable")
                  => CreationScheduled(dest)
            /\ (Eligible(src) /\ ~Eligible(dest)) => DeletionScheduled(src)
            /\ (~Eligible(src) /\ Eligible(dest) /\ dest_is # "missing")
                  => CreationScheduled(dest)
            /\ (~Eligible(src) /\ Eligible(dest) /\ dest_is = "missing")
                  => NothingChanges
            /\ (~Eligible(src) /\ ~Eligible(dest)) => NothingChanges]_vars

\* The last event was on_moved(a.md, b.md), and the chunks of a.md are
\* under b.md.
C16_MovedByRename ==
    /\ call.op = "on_moved"
    /\ call.src = "a.md"
    /\ call.dest = "b.md"
    /\ call.event = events
    /\ files["a.md"] = Absent
    /\ \E d \in store : d.source = "b.md" /\ d.id = DocId("a.md", 0)
    /\ GetBySource(store, "a.md") = {}

\* C19: no exception leaves a handler: whatever the path of the event, the
\* last event delivered did not raise.
C19_HandlersNeverRaise ==
    call.op \in HandlerOps \cup {"on_moved"} => ~call.raised

\* ------------------------------------------------------- atomic re-create
\* C17: a path re-created while its deletion was pending is reprocessed
\* sooner than after the full debounce period: once debounce_seconds have
\* passed since the create event and the file is still there, an execution
\* of _debounced_process_file for the path has started.
C17_RecreateReprocessedEarly ==
    \A p \in DOMAIN recreated :
        (recreated[p].age >= debounce_seconds /\ files[p] # Absent)
            => recreated[p].reprocessed

\* ----------------------------------------------------- move-source selection
\* The pending deletion q qualifies as the source of the created file: it
\* was observed within the window and its score reaches the minimum.
Qualifies(q, created) ==
    /\ q \in DOMAIN pending_deletions
    /\ pending_deletions[q] <= move_detection_window
    /\ MatchScore(q, created, files[created]) >= 50

HashDiffers(p, c) ==
    /\ c # Absent
    /\ files[p] = c
    /\ (p \notin DOMAIN file_hashes \/ file_hashes[p] # Hash(c))

\* The watcher knows the hash of the content c of p, and process_file has
\* run over that content: it recorded the fingerprint of c.
Reprocessed(p, c) ==
    /\ p \in DOMAIN file_hashes
    /\ file_hashes[p] = Hash(c)
    /\ p \in DOMAIN cache
    /\ cache[p] = CacheEntry(c)

\* Every file whose hash differs from the last known one is notified by the
\* scan, which records the new hash.
ScanNotifies ==
    [][(\E t \in timers : ManualScan(t)) =>
         \A p \in Paths :
            (files[p] # Absent /\ HashDiffers(p, files[p])) =>
               /\ \E n \in notified' \ notified : n.path = p
               /\ file_hashes'[p] = Hash(files[p])]_vars

\* A content whose hash is not the last known one is eventually reprocessed,
\* unless the file is written again first.
EventuallyReprocessed ==
    \A p \in Paths, c \in Contents :
        HashDiffers(p, c) ~> (files[p] # c \/ Reprocessed(p, c))

C21_StopEndsScanning ==
    Stopped =>
        /\ pending_deletions = EmptyDict
        /\ \A t \in timers : t.kind # "scan"

\* C22: after _stop_manual_scanning has returned, no callback of a timer
\* that was scheduled when it returned writes to the store or to the cache.
C22_NoWriteAfterStop ==
    [][ \A r \in running :
           /\ Stopped
           /\ << "debounce", r.path, r.gen >> \in call.scheduled
           /\ ProcessStep(r) \/ UpsertStep(r)
           => /\ store' = store
              /\ cache' = cache
              /\ cache_file' = cache_file ]_vars


\* The invocations of a call of _retry_with_backoff that raised.
Failures(h) == { k \in 1..Len(h) : ~h[k].ok }

\* C23: _retry_with_backoff(op, max_retries=m) invokes op at most m + 1
\* times; it returns the value of the first invocation that succeeds and
\* invokes op no more, so that f failures followed by a success make f + 1
\* invocations; it has slept retry_delay * 2^k after the failed attempt k
\* (from 0) that another attempt follows; and after m + 1 failures it raises
\* the exception of the last attempt.
C23_RetryWithBackoff ==
    call.op = "_retry_with_backoff" =>
        LET h == call.history
            m == call.max_retries
        IN  /\ Len(h) <= m + 1
            /\ \A k \in 1..Len(h) - 1 : ~h[k].ok
            /\ Len(call.waits) = IF call.pc = "sleep" THEN Len(h) - 1
                                 ELSE Cardinality(Failures(h) \ {m + 1})
            /\ \A k \in 1..Len(call.waits) :
                  call.waits[k] = retry_delay * 2^(k - 1)
            /\ call.pc = "done" /\ h[Len(h)].ok =>
                  /\ call.result = [kind |-> "returned",
                                    value |-> h[Len(h)].value]
                  /\ Len(h) = Cardinality(Failures(h)) + 1
            /\ call.pc = "done" /\ ~h[Len(h)].ok =>
                  /\ Len(h) = m + 1
                  /\ call.result = [kind |-> "raised",
                                    value |-> h[m + 1].value]
            /\ call.pc # "done" => call.result = [kind |-> "none"]
            /\ call.pc = "try" /\ Len(h) > 0 => ~h[Len(h)].ok

\* C23: a call that returned after three failures and the waits between the
\* four invocations.
C23_ReturnedAfterRetries ==
    /\ call.op = "_retry_with_backoff"
    /\ call.pc = "done"
    /\ call.result.kind = "returned"
    /\ Len(call.history) = max_retries + 1
    /\ Len(call.waits) = max_retries

\* C24: in the rollback branch of the debounced handler a restore of the
\* backup that fails is attempted again, up to its retry count, before the
\* handler gives up.
C24_FailedRestoreRetried ==
    \A r \in rollbacks :
        r.restore_failed => r.restore_invocations = restore_max_retries + 1

\* C25: for every file under the project directory the watcher's
\* _should_process_file holds exactly when ingest_directory selects the file
\* and process_file has an extraction method for it.
C25_WatchAndBatchAgree ==
    call.op = "indexable" /\ call.watcher # "?" /\ call.batch # "?"
        => call.watcher = call.batch

\* C26: for every source path the chunk_index values of the stored chunks
\* are unique and contiguous from 0, also after a move onto a path that has
\* chunks already.
C26_ChunkSetInvariant ==
    \A p \in AllPaths :
        LET chunks == GetBySource(store, p)
        IN  /\ \A d, e \in chunks : d.chunk_index = e.chunk_index => d = e
            /\ \A d \in chunks : d.chunk_index < Cardinality(chunks)

\* C27: once every timer has fired and every callback has ended, the cache
\* holds an entry only for a path whose chunks were written to the store at
\* least once and that was not deleted or moved away since; no entry is left
\* for a path whose store write failed or never happened.
C27_FingerprintEntryInvariant ==
    Quiescent => \A p \in Paths : p \in DOMAIN cache => p \in stored

\* C28: after a successful move_file_in_database(old, new) where old had a
\* cache entry, the cache has no entry under old and the entry under new is
\* the entry old had before the move.
C28_CacheEntryRelocated ==
    [][(IsMove /\ call'.result /\ call'.old \in DOMAIN cache) =>
         /\ call'.old \notin DOMAIN cache'
         /\ call'.new \in DOMAIN cache'
         /\ cache'[call'.new] = cache[call'.old]]_vars

\* C28: a move succeeded for a path that had a cache entry, onto a path that
\* had another entry or none.
C28_MovedWithEntry ==
    /\ call.op = "move_file_in_database"
    /\ call.result
    /\ call.cached
    /\ call.new \in DOMAIN cache
    /\ call.old \notin DOMAIN cache

\* C29: a pending deletion exists only for a path that had a delete event
\* and is absent since, it is as old as that event, and a deletion timer of
\* the path that will find it old enough is still to fire; so that once every
\* timer has fired no pending deletion is left, whatever delete, create and
\* change events the paths had.
C29_PendingDeletionLifecycle ==
    /\ \A p \in DOMAIN pending_deletions :
          /\ p \in DOMAIN last_delete
          /\ pending_deletions[p] = last_delete[p].age
          /\ files[p] = Absent
          /\ \E t \in timers :
                /\ t.kind = "deletion"
                /\ t.path = p
                /\ t.left + pending_deletions[p] >= atomic_operation_delay
    /\ Quiescent => pending_deletions = EmptyDict

\* C29: a path was deleted again while the timer of its earlier deletion is
\* still to fire.
C29_TwoTimersOutstanding ==
    \E p \in DOMAIN pending_deletions :
        \E t, u \in timers :
            /\ t # u
            /\ t.kind = "deletion" /\ t.path = p
            /\ u.kind = "deletion" /\ u.path = p

\* C30: _detect_file_move returns a pending deletion as the source of the
\* created file only when the hash tracked for it is the hash of the created
\* file or its filename is the filename of the created file.
C30_ConservativeMoveMatching ==
    [][(call'.op = "_detect_file_move" /\ call'.result # NoSource) =>
         LET src == call'.result
             created == call'.created
         IN  \/ /\ src \in DOMAIN file_hashes
                /\ file_hashes[src] = Hash(files[created])
             \/ Name(src) = Name(created)]_vars


\* C31: when _debounced_process_file reprocesses a file whose extracted
\* content is empty or whose extraction fails, the step that runs
\* process_file leaves the store as it was (every chunk with its id, content
\* and metadata), writes no cache entry, in memory or on disk, and ends the
\* handler without an upsert.
C31_EmptyContentChangesNothing ==
    [][\A r \in running :
          (/\ r.pc = "process"
           /\ r \notin running'
           /\ files[r.path] \in NoTextContents)
          => /\ store' = store
             /\ cache' = cache
             /\ cache_file' = cache_file
             /\ running' = running \ {r}]_vars

\* An indexed file was rewritten to white space, its reprocessing has ended,
\* and its chunks and its cache entry are those of the version before.
C31_ReprocessedEmpty ==
    /\ files["a.md"] = EmptyContent
    /\ running = {}
    /\ timers = {}
    /\ \E e \in execs : e.path = "a.md"
    /\ GetBySource(store, "a.md") = Documents("a.md", 1)
    /\ cache["a.md"] = CacheEntry(1)

\* C32: hash-based change detection reports each content change once: there
\* are never more calls of _process_file_change than content changes of the
\* files, whether a change is seen by a file event, by the periodic scan, or
\* by both.
C32_EachChangeReportedOnce ==
    gen["a.md"] + gen["b.md"] <= events

\* C33: retrieve_section(source, 0, n) over the chunks chunk_text produced
\* for a text returns exactly that text, no character duplicated or dropped.
C33_SectionRoundTrip ==
    call.op = "retrieve_section" => call.text = call.original

\* C38: chunk_text(text, chunk_size, overlap) terminates for every text and
\* every 0 <= overlap < chunk_size: every call returns its list of chunks.
C38_ChunkTextTerminates ==
    <>(call.op = "chunk_text" => call.pc = "returned")

\* C34: when the last of the reprocessings of a path that are under way ends
\* with its upsert, the store holds for the path the chunk set of one
\* version of the file: the chunks one of the reprocessings produced, never
\* a mix of chunks of two versions and never nothing.
C34_OverlappingReprocessings ==
    [][\A r \in running :
          (/\ r.pc = "upsert"
           /\ \A q \in running' : q.path # r.path
           /\ store' # store)
          => \E c \in Contents :
                GetBySource(store', r.path) = Documents(r.path, c)]_vars

\* C35: the steps of a reprocessing of one path (process_file and the
\* upsert of its result) leave the chunks stored for every other path as
\* they were, also where that path got its chunks by a move.
C35_OtherPathsUntouched ==
    [][\A r \in running :
          (ProcessStep(r) \/ UpsertStep(r))
          => \A q \in Paths \ {r.path} :
                GetBySource(store', q) = GetBySource(store, q)]_vars

\* C36: after a detected move whose database move failed, the old path has
\* no pending deletion and no hash entry, and once every timer has fired and
\* every callback has ended the store holds no chunk whose source is the
\* old path (as long as no file is created at the old path again).
C36_FailedMoveLeavesNoTrace ==
    (/\ call.op = "_process_file_move"
     /\ ~call.moved
     /\ files[call.old] = Absent)
    => /\ call.old \notin DOMAIN pending_deletions
       /\ call.old \notin DOMAIN file_hashes
       /\ Quiescent => GetBySource(store, call.old) = {}

\* The store holds for an existing file the chunks of its current content.
ConvergedFor(p) ==
    files[p] # Absent => GetBySource(store, p) = Documents(p, files[p])

EventuallyConverged == <>[](\A p \in Paths : ConvergedFor(p))

\* A file whose reprocessing ended in the rollback branch is reprocessed
\* later on.
RolledBackRetried ==
    \A p \in Paths : (\E r \in rollbacks : r.path = p) ~> ConvergedFor(p)

\* C37: once the writes have stopped and the store works again, with timers
\* that fire, scans that run and threads that go on, the chunks stored for
\* every existing file eventually are, and stay, the chunks of its current
\* content; in particular a file whose reprocessing failed and was rolled
\* back is picked up by a later scan and reprocessed.
C37_EventualConvergence == EventuallyConverged /\ RolledBackRetried

====
